---- MODULE Spec2Model ----
(***************************************************************************)
(* A model of data-explorer's session and query-orchestration layer:       *)
(* the useDuckDB hook (catalog + engine connection), the useFilePersistence*)
(* hook and the IndexedDB helpers (file store + last-used pointer), and    *)
(* the App component (tabs, restore, file loads, queries, join wizard).    *)
(*                                                                         *)
(* Every async handler is a task whose pc names the await it is suspended  *)
(* at.  A task suspended at an engine await has that engine call in flight *)
(* on the one shared connection.  The synchronous code between two awaits  *)
(* is one atomic step (JavaScript runs it to completion).                  *)
(***************************************************************************)
EXTENDS Integers, Sequences, FiniteSets, Bags, TLC

VARIABLES
  relations,           \* names of the relations that are live in the engine
  loadedFiles,         \* useDuckDB: the catalog, LoadedFile[]
  tabs,                \* App: FileTabState[]
  activeTabId,         \* App: string | null
  showFileSelector,    \* App
  showJoinWizard,      \* App
  isFileLoading,       \* App
  isQueryRunning,      \* App
  isRestoring,         \* App
  error,               \* App: string | null
  restoreNotification, \* App: string | null
  gridFilter,          \* the grid widget's live column-filter model
  searchError,         \* RegexSearch: error, string | null
  files,               \* IndexedDB object store 'files'
  lastUsedFileId,      \* IndexedDB settings store, key 'lastUsedFileId'
  restore,             \* the restoreLastFile() call started on mount
  tasks,               \* bag of the async handlers that are suspended
  wizard,              \* JoinWizard component state
  nOps,                \* number of async user operations started so far
  lastTabEvent,        \* history: the last TabBar callback that ran
  isExporting,         \* App
  downloads,           \* history: the blobs handed to downloadBlob
  configurator,        \* JoinConfigurator component state
  lastIssued           \* history: the query most recently issued, <<>> if none

vars == <<relations, loadedFiles, tabs, activeTabId, showFileSelector,
          showJoinWizard, isFileLoading, isQueryRunning, isRestoring, error,
          restoreNotification, gridFilter, searchError, files, lastUsedFileId,
          restore, tasks, wizard, nOps, lastTabEvent, isExporting, downloads, configurator, lastIssued>>

\* ------------------------------------------------------------------ bounds

\* Async user operations (file loads, queries, searches, clears, wizard
\* sessions) started in one run of the app.
MaxOps == 3

\* Async handlers that are suspended at the same time.
MaxTasks == 2

\* Rows the preview query returns at most (its LIMIT, scaled down).
PreviewLimit == 2

Null == "null"

\* ------------------------------------------------------- names and formats

Digits == {"0", "1", "2", "3", "4", "5", "6", "7", "8", "9"}
UpperSeq == <<"A", "B", "C", "D", "E", "F", "G", "H", "I", "J", "K", "L", "M",
              "N", "O", "P", "Q", "R", "S", "T", "U", "V", "W", "X", "Y", "Z">>
LowerSeq == <<"a", "b", "c", "d", "e", "f", "g", "h", "i", "j", "k", "l", "m",
              "n", "o", "p", "q", "r", "s", "t", "u", "v", "w", "x", "y", "z">>
Range(s) == {s[i] : i \in DOMAIN s}
WordChars == Range(UpperSeq) \cup Range(LowerSeq) \cup Digits \cup {"_"}

\* String.prototype.toLowerCase, one character
LowerChar(c) ==
  IF c \in Range(UpperSeq)
    THEN LowerSeq[CHOOSE i \in DOMAIN UpperSeq : UpperSeq[i] = c]
    ELSE c
toLowerCase(s) == [i \in DOMAIN s |-> LowerChar(s[i])]

\* index of the last "." of s, 0 when there is none
LastDot(s) ==
  IF \E i \in DOMAIN s : s[i] = "."
    THEN CHOOSE i \in DOMAIN s : s[i] = "." /\ \A j \in DOMAIN s : j > i => s[j] # "."
    ELSE 0

\* filename.toLowerCase().split('.').pop()
Extension(filename) ==
  LET l == toLowerCase(filename)
  IN  SubSeq(l, LastDot(l) + 1, Len(l))

detectFormat(filename) ==
  LET ext == Extension(filename)
  IN  CASE ext = <<"c", "s", "v">> -> "csv"
        [] ext = <<"t", "s", "v">> -> "tsv"
        [] ext = <<"p", "a", "r", "q", "u", "e", "t">> -> "parquet"
        [] ext = <<"x", "l", "s", "x">> -> "xlsx"
        [] ext = <<"x", "l", "s">> -> "xls"
        [] ext = <<"j", "s", "o", "n">> -> "json"
        [] OTHER -> "csv"

\* filename.replace(/\.[^.]+$/, ''): drop a last "." that is followed by at
\* least one character
StripExtension(filename) ==
  LET d == LastDot(filename)
  IN  IF d > 0 /\ d < Len(filename) THEN SubSeq(filename, 1, d - 1) ELSE filename

\* base.replace(/[^a-zA-Z0-9_]/g, '_').replace(/^[0-9]/, '_$&')
sanitizeTableName(filename) ==
  LET base == StripExtension(filename)
      repl == [i \in DOMAIN base |-> IF base[i] \in WordChars THEN base[i] ELSE "_"]
  IN  IF Len(repl) > 0 /\ repl[1] \in Digits THEN <<"_">> \o repl ELSE repl

\* ---------------------------------------------------------------- values

\* File names the user can pick; both have a non-empty base name.
FileNames == { <<"a", ".", "c", "s", "v">>, <<"b", ".", "x", "l", "s", "x">> }

\* One more name, for the runs that need three tabs.
MoreNames == FileNames \cup { <<"c", ".", "p", "a", "r", "q", "u", "e", "t">> }

\* Names of every shape for sanitizeTableName: all strings of up to
\* MaxNameLen characters over a letter, a digit, the dot and a character
\* outside [a-zA-Z0-9_], and a few longer ones.
MaxNameLen == 2
NameChars == {"a", "1", ".", "-"}
AnyNames ==
  UNION {[1..n -> NameChars] : n \in 1..MaxNameLen}
    \cup { <<"a", ".", "c", "s", "v">>, <<".", "c", "s", "v">>,
           <<"1", "a", ".", "c", "s", "v">>, <<"a", "-", "1", ".", "c", "s", "v">>,
           <<"a", ".", "b", ".", "c", "s", "v">>, <<"A", "_", "9">> }

\* What a file holds: content the format's reader accepts, or not.
Contents == {"good", "bad"}

\* The File objects handed to handleFileSelect.
UserFiles == [name : FileNames, content : Contents]
MoreFiles == [name : MoreNames, content : {"good"}]

\* A string | null holding a table name or a record id: null is <<>>.
NoId == <<>>

\* The column-filter models of the grid: "{}" is the model with no filter.
EmptyFilter == "{}"
FilterModels == {EmptyFilter, "F1"}
NullFilter == Null

CouldNotRestore == "Previous session could not be restored"
SavedDataCleared == "Saved data cleared"

\* SQL texts, by the template that built them, and their results.
DefaultQuery(t) == [kind |-> "all", table |-> t]      \* SELECT * FROM "t"
PreviewQuery(t) == [kind |-> "limit", table |-> t]    \* SELECT * FROM "t" LIMIT 1000
SearchQuery(t) == [kind |-> "search", table |-> t]    \* SELECT * FROM "t" WHERE ...
UserQuery(t) == [kind |-> "user", table |-> t]        \* SQL typed in the editor
BadQuery(t) == [kind |-> "bad", table |-> t]          \* SQL the engine rejects

\* conn.query(sql) returns rows iff the SQL is valid and its relation is live.
QuerySucceeds(sql, rels) == sql.kind # "bad" /\ sql.table \in rels
QueryResult(sql) == [of |-> sql]

\* --------------------------------------------------------- persisted files

\* fileToPersistedFile: only parquet content is base64-encoded, every other
\* format (xlsx and xls too) is stored as file.text().
fileToPersistedFile(file, id) ==
  LET format == detectFormat(file.name)
  IN  [id |-> id, name |-> file.name, format |-> format,
       content |-> [enc |-> IF format = "parquet" THEN "base64" ELSE "text",
                    data |-> file.content]]

\* loadFileFromContent's reading of the stored content: xlsx, xls and parquet
\* go through atob (which throws on content that was stored as text), the
\* text formats are registered verbatim; then the reader must accept it.
ContentIngests(format, content) ==
  /\ format \in {"xlsx", "xls", "parquet"} => content.enc = "base64"
  /\ format \in {"csv", "tsv", "json"} => content.enc = "text"
  /\ content.data = "good"

\* saveFile's id: `${file.name}-${Date.now()}`
FileId(file, now) == <<file.name, now>>

\* store.put(file) on the 'files' store, keyPath 'id'
savePersistedFile(store, rec) == {r \in store : r.id # rec.id} \cup {rec}

\* store.get(id): the record, or null (here: the empty set)
getPersistedFile(store, id) == {r \in store : r.id = id}

\* ----------------------------------------------------------------- catalog

LoadedFile(name, tableName, format) ==
  [name |-> name, tableName |-> tableName, format |-> format]

\* setLoadedFiles(prev => [...prev, loadedFile]): no filter on the table name
UpsertLoadedFile_append(catalog, lf) == Append(catalog, lf)

\* setLoadedFiles(prev => [...prev.filter(f => f.tableName !== tableName), loadedFile])
UpsertLoadedFile(catalog, lf) ==
  LET Other(f) == f.tableName # lf.tableName
  IN  Append(SelectSeq(catalog, Other), lf)

\* -------------------------------------------------------------------- tabs

NewTab(lf, result) ==
  [file |-> lf, queryResult |-> result, lastQuery |-> DefaultQuery(lf.tableName),
   quickFilter |-> <<>>, filterModel |-> NullFilter]

TabIds(ts) == {ts[i].file.tableName : i \in DOMAIN ts}

\* tabs.find(t => t.file.tableName === activeTabId) ?? null
HasActiveTab(ts, id) == id \in TabIds(ts)
ActiveTab(ts, id) ==
  ts[CHOOSE i \in DOMAIN ts :
       /\ ts[i].file.tableName = id
       /\ \A j \in DOMAIN ts : ts[j].file.tableName = id => i <= j]

\* { ...tab, ...updates }
Merge(tab, updates) ==
  [f \in DOMAIN tab |-> IF f \in DOMAIN updates THEN updates[f] ELSE tab[f]]

\* updateTab that ignores its tableName and updates the tab that is active now
updateTab_active(ts, tableName, updates) ==
  [i \in DOMAIN ts |->
     IF ts[i].file.tableName = activeTabId THEN Merge(ts[i], updates) ELSE ts[i]]

updateTab(ts, tableName, updates) ==
  [i \in DOMAIN ts |->
     IF ts[i].file.tableName = tableName THEN Merge(ts[i], updates) ELSE ts[i]]

\* -------------------------------------------------------------------- grid

\* App renders <DataGrid> (and dataGridRef.current is set) iff it is past the
\* loading screen, has tabs, is not showing the file selector and has a
\* current file.
DataGridRendered(restoring, ts, selector, id) ==
  ~restoring /\ ts # <<>> /\ ~selector /\ HasActiveTab(ts, id)

InitialFilterModel(ts, id) ==
  IF HasActiveTab(ts, id) THEN ActiveTab(ts, id).filterModel ELSE NullFilter

\* The grid's live filter model after a render with the given new App state.
\*  - not rendered: there is no grid (kept as the empty model);
\*  - newly mounted: a new grid has no filter; the restore effect applies
\*    initialFilterModel only if the grid api is already set, which the grid
\*    library decides, so both outcomes are possible;
\*  - still mounted: the restore effect re-runs when initialFilterModel is
\*    another tab's object, and calls setFilterModel only for a non-null one;
\*    with a null one the grid keeps the filters of the columns the new
\*    tab's data has too (all of them or none, here).
GridNext(ts2, id2, selector2, restoring2) ==
  LET was == DataGridRendered(isRestoring, tabs, showFileSelector, activeTabId)
      now == DataGridRendered(restoring2, ts2, selector2, id2)
      init2 == InitialFilterModel(ts2, id2)
  IN  IF ~now THEN {EmptyFilter}
      ELSE IF ~was
        THEN {EmptyFilter} \cup (IF init2 # NullFilter THEN {init2} ELSE {})
      ELSE IF id2 # activeTabId /\ init2 # NullFilter THEN {init2}
      ELSE IF id2 # activeTabId THEN {gridFilter, EmptyFilter}
      ELSE {gridFilter}

\* RegexSearch's error state after a render with the given new App state:
\* the component is part of the main view and loses its state with it.
RegexSearchNext(ts2, id2, selector2, restoring2) ==
  IF DataGridRendered(restoring2, ts2, selector2, id2) THEN searchError ELSE Null

\* ------------------------------------------------------------------- tasks

\* The awaits that are conn.query calls.
EnginePcs == {"drop", "create", "describe", "count", "preview", "query", "previews",
              "exportFromData_create", "exportFromData_insert", "exportFromData_copy",
              "exportFromData_drop", "exportData_create", "exportData_copy",
              "exportData_select", "exportData_drop"}

\* Engine calls one suspended task has in flight: loadPreviews awaits
\* Promise.all of two executeQuery calls, every other await is one call.
EngineCalls(t) ==
  IF t.pc \notin EnginePcs THEN 0
  ELSE IF t.pc = "previews" THEN t.pending
  ELSE 1

\* Number of engine calls in flight on the shared connection.
InFlight ==
  LET live == BagToSet(tasks)
      Sum[S \in SUBSET live] ==
        IF S = {} THEN 0
        ELSE LET t == CHOOSE x \in S : TRUE
             IN  CopiesIn(t, tasks) * EngineCalls(t) + Sum[S \ {t}]
  IN  Sum[live] + EngineCalls(restore)

Spawn(bag, t) == bag (+) SetToBag({t})
Finish(bag, t) == bag (-) SetToBag({t})
Step(bag, t, t2) == Spawn(Finish(bag, t), t2)

\* ------------------------------------------------------- join configurator

\* The column names of a catalog entry (LoadedFile.columns), by table: the
\* table of a.csv has columns id and x, every other table id and y.
TableColumns(tableName) ==
  IF tableName = sanitizeTableName(<<"a", ".", "c", "s", "v">>)
    THEN << <<"i", "d">>, <<"x">> >>
    ELSE << <<"i", "d">>, <<"y">> >>

\* What the user can type in a prefix field; <<>> is the empty string.
Prefixes == { <<>>, <<"p", "_">> }

\* alias: undefined
NoAlias == <<>>

\* a getColumnAlias that takes the prefix of the other side
getColumnAlias_swapped(tbl, columnName, lPrefix, rPrefix, leftTable, rightTable) ==
  IF tbl = "left"
    THEN IF rPrefix # <<>> THEN rPrefix \o columnName ELSE NoAlias
    ELSE IF lPrefix # <<>> THEN lPrefix \o columnName
    ELSE IF columnName \in Range(TableColumns(leftTable.tableName))
      THEN rightTable.tableName \o <<"_">> \o columnName
    ELSE NoAlias

getColumnAlias(tbl, columnName, lPrefix, rPrefix, leftTable, rightTable) ==
  IF tbl = "left"
    THEN IF lPrefix # <<>> THEN lPrefix \o columnName ELSE NoAlias
    ELSE IF rPrefix # <<>> THEN rPrefix \o columnName
    ELSE IF columnName \in Range(TableColumns(leftTable.tableName))
      THEN rightTable.tableName \o <<"_">> \o columnName
    ELSE NoAlias

SelectedColumn(tbl, column, alias) == [table |-> tbl, column |-> column, alias |-> alias]

\* initialColumns: every column of the left table, then of the right one
initialColumns(leftTable, rightTable, leftPrefix, rightPrefix) ==
  LET lcols == TableColumns(leftTable.tableName)
      rcols == TableColumns(rightTable.tableName)
  IN  [i \in 1 .. Len(lcols) |->
         SelectedColumn("left", lcols[i],
           getColumnAlias("left", lcols[i], leftPrefix, rightPrefix, leftTable, rightTable))]
      \o
      [i \in 1 .. Len(rcols) |->
         SelectedColumn("right", rcols[i],
           getColumnAlias("right", rcols[i], leftPrefix, rightPrefix, leftTable, rightTable))]

\* columns[0]?.name || ''
FirstColumn(tableName) ==
  IF TableColumns(tableName) = <<>> THEN <<>> ELSE TableColumns(tableName)[1]

\* the condition the configurator starts with, and the one addCondition adds
NewCondition(leftTable, rightTable) ==
  [leftColumn |-> FirstColumn(leftTable.tableName),
   rightColumn |-> FirstColumn(rightTable.tableName), operator |-> "="]

\* JoinConfigurator's state when it mounts
JoinConfigurator(leftTable, rightTable) ==
  [leftPrefix |-> <<>>, rightPrefix |-> <<>>,
   selectedColumns |-> initialColumns(leftTable, rightTable, <<>>, <<>>),
   joinType |-> "INNER",
   conditions |-> <<NewCondition(leftTable, rightTable)>>]

\* JoinWizard's state when it mounts; id tells one mounted instance from the
\* next (a setState of an unmounted instance does nothing).
\* joinConfig and resultPreview are null (<<>>) or hold one value.
WizardInit == [id |-> 0, step |-> "select", left |-> {}, right |-> {},
               config |-> FALSE, preview |-> FALSE, saving |-> FALSE,
               joinConfig |-> <<>>, resultPreview |-> <<>>]

\* The stores a previous session of the app can have left behind: nothing;
\* a pointer whose record is gone (a clear that failed half-way); the record
\* and the pointer of a file that was loaded (so its content was accepted).
SavedFiles == {f \in UserFiles : f.content = "good"}
StoredSessions ==
  { <<{}, NoId>> } \cup
  { <<{}, FileId(f, 0)>> : f \in SavedFiles } \cup
  { <<{fileToPersistedFile(f, FileId(f, 0))}, FileId(f, 0)>> : f \in SavedFiles }

Init ==
  /\ relations = {}
  /\ loadedFiles = <<>>
  /\ tabs = <<>>
  /\ activeTabId = NoId
  /\ showFileSelector = FALSE
  /\ showJoinWizard = FALSE
  /\ isFileLoading = FALSE
  /\ isQueryRunning = FALSE
  /\ isRestoring = FALSE
  /\ error = Null
  /\ restoreNotification = Null
  /\ gridFilter = EmptyFilter
  /\ searchError = Null
  /\ \E s \in StoredSessions : files = s[1] /\ lastUsedFileId = s[2]
  /\ restore = [pc |-> "getLastId", id |-> NoId, rec |-> {}, outcome |-> "pending"]
  /\ tasks = EmptyBag
  /\ wizard = WizardInit
  /\ nOps = 0
  /\ lastTabEvent = "none"
  /\ isExporting = FALSE
  /\ downloads = <<>>
  /\ configurator = [leftPrefix |-> <<>>, rightPrefix |-> <<>>, selectedColumns |-> <<>>,
                     joinType |-> "INNER", conditions |-> <<>>]
  /\ lastIssued = <<>>

\* --------------------------------------------------------- user interface

\* The model's bounds on what the user starts, and on the effects and
\* handlers that can be suspended at once.
CanSpawn == BagCardinality(tasks) < MaxTasks
CanStart == nOps < MaxOps /\ CanSpawn

\* The main view takes the user's input: past the loading screen (dbLoading
\* is over in every state of the model) and not under the join wizard, which
\* covers the whole window.
Interactive == ~isRestoring /\ ~showJoinWizard

\* <FileDropZone onFileSelect={handleFileSelect}> is on screen.
DropZoneShown == Interactive /\ (tabs = <<>> \/ showFileSelector)

\* The toolbar, grid and export panel of the current file are on screen.
MainViewShown == DataGridRendered(isRestoring, tabs, showFileSelector, activeTabId)

\* saveCurrentTabState: the tabs after the capture of the live filter model
saveCurrentTabState ==
  IF activeTabId = NoId \/ ~MainViewShown
    THEN tabs
    ELSE updateTab(tabs, activeTabId, [filterModel |-> gridFilter])

handleTabSelect(tableName) ==
  /\ Interactive
  /\ tableName \in TabIds(tabs)
  /\ LET ts == saveCurrentTabState
     IN  /\ tabs' = ts
         /\ activeTabId' = tableName
         /\ showFileSelector' = FALSE
         /\ gridFilter' \in GridNext(ts, tableName, FALSE, isRestoring)
         /\ searchError' = RegexSearchNext(ts, tableName, FALSE, isRestoring)
  /\ lastTabEvent' = "select"
  /\ UNCHANGED <<isExporting, downloads, configurator, lastIssued>>
  /\ UNCHANGED <<relations, loadedFiles, showJoinWizard, isFileLoading,
                 isQueryRunning, isRestoring, error, restoreNotification, files,
                 lastUsedFileId, restore, tasks, wizard, nOps>>

\* prev.filter(t => t.file.tableName !== tableName)
WithoutTab(ts, tableName) ==
  LET Keep(t) == t.file.tableName # tableName
  IN  SelectSeq(ts, Keep)

\* handleTabClose with the first remaining tab made active
ActiveAfterClose_first(newTabs, tableName, active) ==
  IF tableName = active /\ Len(newTabs) > 0
    THEN newTabs[1].file.tableName
  ELSE IF Len(newTabs) = 0 THEN NoId
  ELSE active

\* handleTabClose without the reset of the active id when no tab remains
ActiveAfterClose_noReset(newTabs, tableName, active) ==
  IF tableName = active /\ Len(newTabs) > 0
    THEN newTabs[Len(newTabs)].file.tableName
  ELSE active

\* the active tab id handleTabClose leaves behind
ActiveAfterClose(newTabs, tableName, active) ==
  IF tableName = active /\ Len(newTabs) > 0
    THEN newTabs[Len(newTabs)].file.tableName
  ELSE IF Len(newTabs) = 0 THEN NoId
  ELSE active

handleTabClose(tableName) ==
  /\ Interactive
  /\ tableName \in TabIds(tabs)
  /\ LET newTabs == WithoutTab(tabs, tableName)
         newActive == ActiveAfterClose(newTabs, tableName, activeTabId)
     IN  /\ tabs' = newTabs
         /\ activeTabId' = newActive
         /\ gridFilter' \in GridNext(newTabs, newActive, showFileSelector, isRestoring)
         /\ searchError' = RegexSearchNext(newTabs, newActive, showFileSelector, isRestoring)
  /\ lastTabEvent' = IF tableName = activeTabId THEN "closeActive" ELSE "closeOther"
  /\ UNCHANGED <<isExporting, downloads, configurator, lastIssued>>
  /\ UNCHANGED <<relations, loadedFiles, showFileSelector, showJoinWizard,
                 isFileLoading, isQueryRunning, isRestoring, error,
                 restoreNotification, files, lastUsedFileId, restore, tasks,
                 wizard, nOps>>

\* "+" in the tab bar, "Load New File" in the toolbar, and "Cancel"
setShowFileSelector(value) ==
  /\ Interactive
  /\ tabs # <<>>
  /\ showFileSelector # value
  /\ showFileSelector' = value
  /\ gridFilter' \in GridNext(tabs, activeTabId, value, isRestoring)
  /\ searchError' = RegexSearchNext(tabs, activeTabId, value, isRestoring)
  /\ UNCHANGED <<relations, loadedFiles, tabs, activeTabId, showJoinWizard,
                 isFileLoading, isQueryRunning, isRestoring, error,
                 restoreNotification, files, lastUsedFileId, restore, tasks,
                 wizard, nOps,
                 lastTabEvent, isExporting, downloads, configurator, lastIssued>>

\* The user edits a column filter in the grid.
GridFilterChanged(model) ==
  /\ Interactive /\ MainViewShown
  /\ model # gridFilter
  /\ gridFilter' = model
  /\ UNCHANGED searchError
  /\ UNCHANGED <<relations, loadedFiles, tabs, activeTabId, showFileSelector,
                 showJoinWizard, isFileLoading, isQueryRunning, isRestoring,
                 error, restoreNotification, files, lastUsedFileId, restore,
                 tasks, wizard, nOps,
                 lastTabEvent, isExporting, downloads, configurator, lastIssued>>

\* setTimeout(() => setRestoreNotification(null), ...)
NotificationTimeout ==
  /\ restoreNotification # Null
  /\ restoreNotification' = Null
  /\ UNCHANGED <<relations, loadedFiles, tabs, activeTabId, showFileSelector,
                 showJoinWizard, isFileLoading, isQueryRunning, isRestoring,
                 error, gridFilter, searchError, files, lastUsedFileId, restore, tasks,
                 wizard, nOps,
                 lastTabEvent, isExporting, downloads, configurator, lastIssued>>

\* ------------------------------------------------------- file load (App)

LoadError == "load failed"
QueryError == "query failed"

TableOf(file) == sanitizeTableName(file.name)

\* conn.query(`CREATE TABLE "t" AS SELECT ...`) creates the relation iff the
\* reader accepts the content and no relation of that name exists.
CreateSucceeds(accepted, tableName, rels) == accepted /\ tableName \notin rels

handleFileSelect(file) ==
  /\ DropZoneShown
  /\ CanStart
  /\ nOps' = nOps + 1
  /\ isFileLoading' = TRUE
  /\ error' = Null
  /\ showFileSelector' = FALSE
  /\ tasks' = Spawn(tasks, [kind |-> "load", pc |-> "drop", file |-> file,
                            now |-> nOps + 1])
  /\ gridFilter' \in GridNext(tabs, activeTabId, FALSE, isRestoring)
  /\ searchError' = RegexSearchNext(tabs, activeTabId, FALSE, isRestoring)
  /\ UNCHANGED <<relations, loadedFiles, tabs, activeTabId, showJoinWizard,
                 isQueryRunning, isRestoring, restoreNotification, files,
                 lastUsedFileId, restore, wizard,
                 lastTabEvent, isExporting, downloads, configurator, lastIssued>>

\* a catch without the finally { setIsFileLoading(false) }
handleFileSelect_catch_loading(t) ==
  /\ error' = LoadError
  /\ isFileLoading' = isFileLoading
  /\ tasks' = Finish(tasks, t)

\* catch (err) { setError(...) } finally { setIsFileLoading(false) }
handleFileSelect_catch(t) ==
  /\ error' = LoadError
  /\ isFileLoading' = FALSE
  /\ tasks' = Finish(tasks, t)

\* loadFile: await conn.query(`DROP TABLE IF EXISTS "t"`); the engine's
\* parser rejects "" (a zero-length delimited identifier)
loadFile_drop(t) ==
  /\ t \in BagToSet(tasks) /\ t.kind = "load" /\ t.pc = "drop"
  /\ IF TableOf(t.file) = <<>>
       THEN /\ handleFileSelect_catch(t)
            /\ UNCHANGED relations
       ELSE /\ relations' = relations \ {TableOf(t.file)}
            /\ tasks' = Step(tasks, t, [t EXCEPT !.pc = "create"])
            /\ UNCHANGED <<error, isFileLoading>>
  /\ UNCHANGED <<loadedFiles, tabs, activeTabId, showFileSelector,
                 showJoinWizard, isQueryRunning, isRestoring,
                 restoreNotification, gridFilter, searchError, files, lastUsedFileId,
                 restore, wizard, nOps,
                 lastTabEvent, isExporting, downloads, configurator, lastIssued>>

\* loadFile: read the file, register it, await conn.query(`CREATE TABLE ...`)
loadFile_create(t) ==
  /\ t \in BagToSet(tasks) /\ t.kind = "load" /\ t.pc = "create"
  /\ IF CreateSucceeds(t.file.content = "good", TableOf(t.file), relations)
       THEN /\ relations' = relations \cup {TableOf(t.file)}
            /\ tasks' = Step(tasks, t, [t EXCEPT !.pc = "describe"])
            /\ UNCHANGED <<error, isFileLoading>>
       ELSE /\ handleFileSelect_catch(t)
            /\ UNCHANGED relations
  /\ UNCHANGED <<loadedFiles, tabs, activeTabId, showFileSelector,
                 showJoinWizard, isQueryRunning, isRestoring,
                 restoreNotification, gridFilter, searchError, files, lastUsedFileId,
                 restore, wizard, nOps,
                 lastTabEvent, isExporting, downloads, configurator, lastIssued>>

\* loadFile: await conn.query(`DESCRIBE "t"`)
loadFile_describe(t) ==
  /\ t \in BagToSet(tasks) /\ t.kind = "load" /\ t.pc = "describe"
  /\ IF TableOf(t.file) \in relations
       THEN /\ tasks' = Step(tasks, t, [t EXCEPT !.pc = "count"])
            /\ UNCHANGED <<error, isFileLoading>>
       ELSE handleFileSelect_catch(t)
  /\ UNCHANGED <<relations, loadedFiles, tabs, activeTabId, showFileSelector,
                 showJoinWizard, isQueryRunning, isRestoring,
                 restoreNotification, gridFilter, searchError, files, lastUsedFileId,
                 restore, wizard, nOps,
                 lastTabEvent, isExporting, downloads, configurator, lastIssued>>

\* loadFile: await conn.query(`SELECT COUNT(*) ...`), setLoadedFiles, return;
\* handleFileSelect goes on to await executeQuery(`SELECT * ... LIMIT 1000`)
loadFile_count(t) ==
  /\ t \in BagToSet(tasks) /\ t.kind = "load" /\ t.pc = "count"
  /\ IF TableOf(t.file) \in relations
       THEN /\ loadedFiles' = UpsertLoadedFile(loadedFiles,
                 LoadedFile(t.file.name, TableOf(t.file), detectFormat(t.file.name)))
            /\ tasks' = Step(tasks, t, [t EXCEPT !.pc = "preview"])
            /\ UNCHANGED <<error, isFileLoading>>
       ELSE /\ handleFileSelect_catch(t)
            /\ UNCHANGED loadedFiles
  /\ UNCHANGED <<relations, tabs, activeTabId, showFileSelector,
                 showJoinWizard, isQueryRunning, isRestoring,
                 restoreNotification, gridFilter, searchError, files, lastUsedFileId,
                 restore, wizard, nOps,
                 lastTabEvent, isExporting, downloads, configurator, lastIssued>>

\* handleFileSelect: the preview query returns; the tab is added and made
\* active, then saveFile(file) starts
handleFileSelect_preview(t) ==
  /\ t \in BagToSet(tasks) /\ t.kind = "load" /\ t.pc = "preview"
  /\ LET tn == TableOf(t.file)
         lf == LoadedFile(t.file.name, tn, detectFormat(t.file.name))
     IN  IF QuerySucceeds(PreviewQuery(tn), relations)
           THEN LET ts == Append(tabs, NewTab(lf, QueryResult(PreviewQuery(tn))))
                IN  /\ tabs' = ts
                    /\ activeTabId' = tn
                    /\ gridFilter' \in GridNext(ts, tn, showFileSelector, isRestoring)
                    /\ searchError' = RegexSearchNext(ts, tn, showFileSelector, isRestoring)
                    /\ tasks' = Step(tasks, t, [t EXCEPT !.pc = "put"])
                    /\ UNCHANGED <<error, isFileLoading>>
           ELSE /\ handleFileSelect_catch(t)
                /\ UNCHANGED <<tabs, activeTabId, gridFilter, searchError>>
  /\ UNCHANGED <<relations, loadedFiles, showFileSelector, showJoinWizard,
                 isQueryRunning, isRestoring, restoreNotification, files,
                 lastUsedFileId, restore, wizard, nOps,
                 lastTabEvent, isExporting, downloads, configurator, lastIssued>>

\* a saveFile whose failed write reaches handleFileSelect's outer catch
saveFile_put_reports(t, ok) ==
  /\ t \in BagToSet(tasks) /\ t.kind = "load" /\ t.pc = "put"
  /\ \/ /\ ok
        /\ files' = savePersistedFile(files,
                      fileToPersistedFile(t.file, FileId(t.file, t.now)))
        /\ tasks' = Step(tasks, t, [t EXCEPT !.pc = "setptr"])
        /\ UNCHANGED <<isFileLoading, error>>
     \/ /\ ~ok
        /\ handleFileSelect_catch(t)
        /\ UNCHANGED files
  /\ UNCHANGED <<relations, loadedFiles, tabs, activeTabId, showFileSelector,
                 showJoinWizard, isQueryRunning, isRestoring,
                 restoreNotification, gridFilter, searchError, lastUsedFileId, restore,
                 wizard, nOps,
                 lastTabEvent, isExporting, downloads, configurator, lastIssued>>

\* saveFile: await savePersistedFile(persisted); ok is whether the storage
\* call succeeds; a failure is caught by handleFileSelect's inner try
\* (console.warn)
saveFile_put(t, ok) ==
  /\ t \in BagToSet(tasks) /\ t.kind = "load" /\ t.pc = "put"
  /\ \/ /\ ok
        /\ files' = savePersistedFile(files,
                      fileToPersistedFile(t.file, FileId(t.file, t.now)))
        /\ tasks' = Step(tasks, t, [t EXCEPT !.pc = "setptr"])
        /\ UNCHANGED isFileLoading
     \/ /\ ~ok
        /\ isFileLoading' = FALSE
        /\ tasks' = Finish(tasks, t)
        /\ UNCHANGED files
  /\ UNCHANGED <<relations, loadedFiles, tabs, activeTabId, showFileSelector,
                 showJoinWizard, isQueryRunning, isRestoring, error,
                 restoreNotification, gridFilter, searchError, lastUsedFileId, restore,
                 wizard, nOps,
                 lastTabEvent, isExporting, downloads, configurator, lastIssued>>

\* saveFile: await setSetting(LAST_FILE_ID_KEY, id); return id
saveFile_setSetting(t, ok) ==
  /\ t \in BagToSet(tasks) /\ t.kind = "load" /\ t.pc = "setptr"
  /\ \/ ok /\ lastUsedFileId' = FileId(t.file, t.now)
     \/ ~ok /\ UNCHANGED lastUsedFileId
  /\ isFileLoading' = FALSE
  /\ tasks' = Finish(tasks, t)
  /\ UNCHANGED <<relations, loadedFiles, tabs, activeTabId, showFileSelector,
                 showJoinWizard, isQueryRunning, isRestoring, error,
                 restoreNotification, gridFilter, searchError, files, restore, wizard, nOps,
                 lastTabEvent, isExporting, downloads, configurator, lastIssued>>

\* ------------------------------------------------------- session restore

\* a restore whose failure path has no finally { setIsRestoring(false) }
restoreLastFile_failed_stuck(outcome) ==
  /\ restoreNotification' = CouldNotRestore
  /\ isRestoring' = isRestoring
  /\ restore' = [restore EXCEPT !.pc = "done", !.outcome = outcome]
  /\ gridFilter' \in GridNext(tabs, activeTabId, showFileSelector, isRestoring)
  /\ searchError' = RegexSearchNext(tabs, activeTabId, showFileSelector, isRestoring)

\* a restore that fails without telling the user
restoreLastFile_failed_silent(outcome) ==
  /\ restoreNotification' = restoreNotification
  /\ isRestoring' = FALSE
  /\ restore' = [restore EXCEPT !.pc = "done", !.outcome = outcome]
  /\ gridFilter' \in GridNext(tabs, activeTabId, showFileSelector, FALSE)
  /\ searchError' = RegexSearchNext(tabs, activeTabId, showFileSelector, FALSE)

\* catch { setRestoreNotification('Previous session could not be restored') }
\* finally { setIsRestoring(false) }, and the early return of a missing record
restoreLastFile_failed(outcome) ==
  /\ restoreNotification' = CouldNotRestore
  /\ isRestoring' = FALSE
  /\ restore' = [restore EXCEPT !.pc = "done", !.outcome = outcome]
  /\ gridFilter' \in GridNext(tabs, activeTabId, showFileSelector, FALSE)
  /\ searchError' = RegexSearchNext(tabs, activeTabId, showFileSelector, FALSE)

\* ok is whether the IndexedDB read succeeds.
\* const lastId = await getLastUsedFileId(); if (!lastId) return;
\* setIsRestoring(true); ... await getPersistedFile(lastId)
restoreLastFile_getLastUsedFileId(ok) ==
  /\ restore.pc = "getLastId"
  /\ \/ /\ ok /\ lastUsedFileId = NoId
        /\ restore' = [restore EXCEPT !.pc = "done", !.outcome = "nothing"]
        /\ UNCHANGED <<isRestoring, restoreNotification, gridFilter, searchError, wizard>>
     \/ /\ ok /\ lastUsedFileId # NoId
        /\ isRestoring' = TRUE
        /\ restore' = [restore EXCEPT !.pc = "getPersisted", !.id = lastUsedFileId]
        /\ gridFilter' \in GridNext(tabs, activeTabId, showFileSelector, TRUE)
        /\ searchError' = RegexSearchNext(tabs, activeTabId, showFileSelector, TRUE)
        /\ wizard' = WizardInit
        /\ UNCHANGED restoreNotification
     \/ /\ ~ok
        /\ restoreLastFile_failed("read_failed")
        /\ UNCHANGED wizard
  /\ UNCHANGED <<relations, loadedFiles, tabs, activeTabId, showFileSelector,
                 showJoinWizard, isFileLoading, isQueryRunning, error, files,
                 lastUsedFileId, tasks, nOps,
                 lastTabEvent, isExporting, downloads, configurator, lastIssued>>

\* const persisted = await getPersistedFile(lastId); if (!persisted) {...}
\* then loadFileFromContent starts with its DROP TABLE IF EXISTS
restoreLastFile_getPersistedFile(ok) ==
  /\ restore.pc = "getPersisted"
  /\ \/ /\ ok /\ getPersistedFile(files, restore.id) = {}
        /\ restoreLastFile_failed("missing")
     \/ /\ ok /\ getPersistedFile(files, restore.id) # {}
        /\ restore' = [restore EXCEPT !.pc = "drop",
                                      !.rec = getPersistedFile(files, restore.id)]
        /\ UNCHANGED <<isRestoring, restoreNotification, gridFilter, searchError>>
     \/ ~ok /\ restoreLastFile_failed("read_failed")
  /\ UNCHANGED <<relations, loadedFiles, tabs, activeTabId, showFileSelector,
                 showJoinWizard, isFileLoading, isQueryRunning, error, files,
                 lastUsedFileId, tasks, wizard, nOps,
                 lastTabEvent, isExporting, downloads, configurator, lastIssued>>

Persisted == CHOOSE r \in restore.rec : TRUE
RestoredTable == sanitizeTableName(Persisted.name)

\* loadFileFromContent: await conn.query(`DROP TABLE IF EXISTS "t"`)
loadFileFromContent_drop ==
  /\ restore.pc = "drop"
  /\ relations' = relations \ {RestoredTable}
  /\ restore' = [restore EXCEPT !.pc = "create"]
  /\ UNCHANGED <<loadedFiles, tabs, activeTabId, showFileSelector,
                 showJoinWizard, isFileLoading, isQueryRunning, isRestoring,
                 error, restoreNotification, gridFilter, searchError, files, lastUsedFileId,
                 tasks, wizard, nOps,
                 lastTabEvent, isExporting, downloads, configurator, lastIssued>>

\* loadFileFromContent: decode the content, register it, await CREATE TABLE
loadFileFromContent_create ==
  /\ restore.pc = "create"
  /\ IF CreateSucceeds(ContentIngests(Persisted.format, Persisted.content),
                       RestoredTable, relations)
       THEN /\ relations' = relations \cup {RestoredTable}
            /\ restore' = [restore EXCEPT !.pc = "describe"]
            /\ UNCHANGED <<isRestoring, restoreNotification, gridFilter, searchError>>
       ELSE /\ restoreLastFile_failed("ingest_failed")
            /\ UNCHANGED relations
  /\ UNCHANGED <<loadedFiles, tabs, activeTabId, showFileSelector,
                 showJoinWizard, isFileLoading, isQueryRunning, error, files,
                 lastUsedFileId, tasks, wizard, nOps,
                 lastTabEvent, isExporting, downloads, configurator, lastIssued>>

\* loadFileFromContent: await conn.query(`DESCRIBE "t"`)
loadFileFromContent_describe ==
  /\ restore.pc = "describe"
  /\ IF RestoredTable \in relations
       THEN /\ restore' = [restore EXCEPT !.pc = "count"]
            /\ UNCHANGED <<isRestoring, restoreNotification, gridFilter, searchError>>
       ELSE restoreLastFile_failed("introspect_failed")
  /\ UNCHANGED <<relations, loadedFiles, tabs, activeTabId, showFileSelector,
                 showJoinWizard, isFileLoading, isQueryRunning, error, files,
                 lastUsedFileId, tasks, wizard, nOps,
                 lastTabEvent, isExporting, downloads, configurator, lastIssued>>

\* loadFileFromContent: await COUNT(*), setLoadedFiles, return; restoreLastFile
\* goes on to await executeQuery(`SELECT * ... LIMIT 1000`)
loadFileFromContent_count ==
  /\ restore.pc = "count"
  /\ IF RestoredTable \in relations
       THEN /\ loadedFiles' = UpsertLoadedFile(loadedFiles,
                 LoadedFile(Persisted.name, RestoredTable, Persisted.format))
            /\ restore' = [restore EXCEPT !.pc = "preview"]
            /\ UNCHANGED <<isRestoring, restoreNotification, gridFilter, searchError>>
       ELSE /\ restoreLastFile_failed("introspect_failed")
            /\ UNCHANGED loadedFiles
  /\ UNCHANGED <<relations, tabs, activeTabId, showFileSelector,
                 showJoinWizard, isFileLoading, isQueryRunning, error, files,
                 lastUsedFileId, tasks, wizard, nOps,
                 lastTabEvent, isExporting, downloads, configurator, lastIssued>>

\* restoreLastFile: the preview query returns; setTabs([newTab]),
\* setActiveTabId(loaded.tableName); finally setIsRestoring(false)
restoreLastFile_preview ==
  /\ restore.pc = "preview"
  /\ LET tn == RestoredTable
         lf == LoadedFile(Persisted.name, tn, Persisted.format)
     IN  IF QuerySucceeds(PreviewQuery(tn), relations)
           THEN LET ts == <<NewTab(lf, QueryResult(PreviewQuery(tn)))>>
                IN  /\ tabs' = ts
                    /\ activeTabId' = tn
                    /\ isRestoring' = FALSE
                    /\ restore' = [restore EXCEPT !.pc = "done", !.outcome = "restored"]
                    /\ gridFilter' \in GridNext(ts, tn, showFileSelector, FALSE)
                    /\ searchError' = RegexSearchNext(ts, tn, showFileSelector, FALSE)
                    /\ UNCHANGED restoreNotification
           ELSE /\ restoreLastFile_failed("preview_failed")
                /\ UNCHANGED <<tabs, activeTabId>>
  /\ UNCHANGED <<relations, loadedFiles, showFileSelector, showJoinWizard,
                 isFileLoading, isQueryRunning, error, files, lastUsedFileId,
                 tasks, wizard, nOps,
                 lastTabEvent, isExporting, downloads, configurator, lastIssued>>

\* ------------------------------------------------------------------ queries

CurrentTable == ActiveTab(tabs, activeTabId).file.tableName

\* SqlEditor's onExecute
handleQueryExecute(sql) ==
  /\ Interactive /\ MainViewShown
  /\ activeTabId # NoId
  /\ CanStart
  /\ nOps' = nOps + 1
  /\ isQueryRunning' = TRUE
  /\ error' = Null
  /\ tasks' = Spawn(tasks, [kind |-> "query", pc |-> "query", handler |-> "execute",
                            tab |-> activeTabId, sql |-> sql, now |-> nOps + 1])
  /\ lastIssued' = <<[tab |-> activeTabId, sql |-> sql]>>
  /\ UNCHANGED <<relations, loadedFiles, tabs, activeTabId, showFileSelector,
                 showJoinWizard, isFileLoading, isRestoring,
                 restoreNotification, gridFilter, searchError, files, lastUsedFileId,
                 restore, wizard,
                 lastTabEvent, isExporting, downloads, configurator>>

\* App's handleSearch (RegexSearch's onSearch); valid is whether the engine
\* accepts the SQL built from the pattern
handleSearch(valid) ==
  /\ Interactive /\ MainViewShown
  /\ activeTabId # NoId
  /\ CanStart
  /\ nOps' = nOps + 1
  /\ isQueryRunning' = TRUE
  /\ error' = Null
  /\ tasks' = Spawn(tasks, [kind |-> "query", pc |-> "query", handler |-> "search",
                            tab |-> activeTabId,
                            sql |-> IF valid THEN SearchQuery(CurrentTable)
                                             ELSE BadQuery(CurrentTable),
                            now |-> nOps + 1])
  /\ lastIssued' = <<[tab |-> activeTabId, sql |-> IF valid THEN SearchQuery(CurrentTable)
                                                    ELSE BadQuery(CurrentTable)]>>
  /\ UNCHANGED <<relations, loadedFiles, tabs, activeTabId, showFileSelector,
                 showJoinWizard, isFileLoading, isRestoring,
                 restoreNotification, gridFilter, files, lastUsedFileId,
                 restore, wizard,
                 lastTabEvent, isExporting, downloads, configurator>>

\* What the user types in the quick filter box: nothing, a blank, a letter
\* (bare, with blanks around it, in the other case), two letters, a quote, and
\* texts with the characters _ and %.
QuickTerms ==
  { <<>>, <<" ">>, <<"a">>, <<" ", "a", " ">>, <<"B">>, <<"x", "b">>, <<"'">>,
    <<"a", "_", "b">>, <<"%">> }

\* the quick filter input's onChange: setQuickFilter(e.target.value)
setQuickFilter(value) ==
  /\ Interactive /\ MainViewShown
  /\ activeTabId # NoId
  /\ tabs' = updateTab(tabs, activeTabId, [quickFilter |-> value])
  /\ UNCHANGED <<relations, loadedFiles, activeTabId, showFileSelector,
                 showJoinWizard, isFileLoading, isQueryRunning, isRestoring,
                 error, restoreNotification, gridFilter, searchError, files,
                 lastUsedFileId, restore, tasks, wizard, nOps, lastTabEvent,
                 isExporting, downloads, configurator, lastIssued>>

\* App's handleSearchClear (RegexSearch's onClear)
handleSearchClear ==
  /\ Interactive /\ MainViewShown
  /\ activeTabId # NoId
  /\ CanStart
  /\ nOps' = nOps + 1
  /\ tabs' = updateTab(tabs, activeTabId, [quickFilter |-> <<>>])
  /\ tasks' = Spawn(tasks, [kind |-> "query", pc |-> "query", handler |-> "clear",
                            tab |-> activeTabId, sql |-> PreviewQuery(CurrentTable),
                            now |-> nOps + 1])
  /\ lastIssued' = <<[tab |-> activeTabId, sql |-> PreviewQuery(CurrentTable)]>>
  /\ UNCHANGED <<relations, loadedFiles, activeTabId, showFileSelector,
                 showJoinWizard, isFileLoading, isQueryRunning, isRestoring,
                 error, restoreNotification, gridFilter, files, lastUsedFileId,
                 restore, wizard,
                 lastTabEvent, isExporting, downloads, configurator>>

\* The patterns typed in the search box: blank; a plain word; a regex both
\* JavaScript and the engine's regexp_matches (RE2) accept; a lookahead,
\* which JavaScript accepts and RE2 rejects; an inline flag, which RE2
\* accepts and JavaScript rejects; an unclosed group, which both reject.
Patterns == {" ", "abc", "a+b", "(?=a)b", "(?i)ab", "a("}

\* pattern.trim()
trim(pattern) == IF pattern = " " THEN "" ELSE pattern

\* new RegExp(pattern) does not throw
RegExpCompiles(pattern) == pattern \notin {"(?i)ab", "a("}

\* the engine accepts the pattern as regexp_matches' second argument
EngineRegexCompiles(pattern) == pattern \notin {"(?=a)b", "a("}

InvalidRegex == "Invalid regex pattern"

\* a handleSearch without the new RegExp(pattern) test
RegexSearch_handleSearch_unchecked(pattern, useRegex) ==
  IF trim(pattern) = ""
    THEN handleSearchClear /\ searchError' = Null
  ELSE /\ handleSearch(useRegex => EngineRegexCompiles(pattern))
       /\ searchError' = Null

\* RegexSearch.handleSearch (the Search button, Enter): a blank pattern
\* clears the search, a regex that new RegExp rejects is reported and
\* nothing is called, any other pattern goes to onSearch; without regex the
\* pattern is matched with LIKE, which takes any text.
RegexSearch_handleSearch(pattern, useRegex) ==
  IF trim(pattern) = ""
    THEN handleSearchClear /\ searchError' = Null
  ELSE IF useRegex /\ ~RegExpCompiles(pattern)
    THEN /\ Interactive /\ MainViewShown
         /\ searchError' = InvalidRegex
         /\ UNCHANGED <<relations, loadedFiles, tabs, activeTabId,
                        showFileSelector, showJoinWizard, isFileLoading,
                        isQueryRunning, isRestoring, error, restoreNotification,
                        gridFilter, files, lastUsedFileId, restore, tasks,
                        wizard, nOps, lastTabEvent, isExporting, downloads, configurator, lastIssued>>
  ELSE /\ handleSearch(useRegex => EngineRegexCompiles(pattern))
       /\ searchError' = Null

\* RegexSearch.handleClear (the Clear button)
RegexSearch_handleClear == handleSearchClear /\ searchError' = Null

\* handlers whose catch stores the failed query text in the tab
executeQuery_return_stores(t) ==
  /\ t \in BagToSet(tasks) /\ t.kind = "query" /\ t.pc = "query"
  /\ IF QuerySucceeds(t.sql, relations)
       THEN /\ tabs' = updateTab(tabs, t.tab, [queryResult |-> QueryResult(t.sql),
                                               lastQuery |-> t.sql])
            /\ UNCHANGED error
       ELSE /\ error' = QueryError
            /\ tabs' = updateTab(tabs, t.tab, [lastQuery |-> t.sql])
  /\ isQueryRunning' = IF t.handler = "clear" THEN isQueryRunning ELSE FALSE
  /\ tasks' = Finish(tasks, t)
  /\ UNCHANGED <<relations, loadedFiles, activeTabId, showFileSelector,
                 showJoinWizard, isFileLoading, isRestoring,
                 restoreNotification, gridFilter, searchError, files, lastUsedFileId,
                 restore, wizard, nOps,
                 lastTabEvent, isExporting, downloads, configurator, lastIssued>>

\* await executeQuery(sql) returns or throws in one of the three handlers:
\* updateTab(activeTabId, { queryResult: result, lastQuery: sql }) with the
\* activeTabId the handler was created with
executeQuery_return(t) ==
  /\ t \in BagToSet(tasks) /\ t.kind = "query" /\ t.pc = "query"
  /\ IF QuerySucceeds(t.sql, relations)
       THEN /\ tabs' = updateTab(tabs, t.tab, [queryResult |-> QueryResult(t.sql),
                                               lastQuery |-> t.sql])
            /\ UNCHANGED error
       ELSE /\ error' = QueryError
            /\ UNCHANGED tabs
  /\ isQueryRunning' = IF t.handler = "clear" THEN isQueryRunning ELSE FALSE
  /\ tasks' = Finish(tasks, t)
  /\ UNCHANGED <<relations, loadedFiles, activeTabId, showFileSelector,
                 showJoinWizard, isFileLoading, isRestoring,
                 restoreNotification, gridFilter, searchError, files, lastUsedFileId,
                 restore, wizard, nOps,
                 lastTabEvent, isExporting, downloads, configurator, lastIssued>>

\* a "Previously loaded" button: shown with the drop zone when there are no
\* tabs; no try/catch, a failing query leaves the state as it is
reopenLoadedFile(f) ==
  /\ DropZoneShown
  /\ tabs = <<>>
  /\ f \in Range(loadedFiles)
  /\ CanStart
  /\ nOps' = nOps + 1
  /\ tasks' = Spawn(tasks, [kind |-> "reopen", pc |-> "preview", lf |-> f])
  /\ UNCHANGED <<relations, loadedFiles, tabs, activeTabId, showFileSelector,
                 showJoinWizard, isFileLoading, isQueryRunning, isRestoring,
                 error, restoreNotification, gridFilter, searchError, files, lastUsedFileId,
                 restore, wizard,
                 lastTabEvent, isExporting, downloads, configurator, lastIssued>>

reopenLoadedFile_preview(t) ==
  /\ t \in BagToSet(tasks) /\ t.kind = "reopen" /\ t.pc = "preview"
  /\ IF QuerySucceeds(PreviewQuery(t.lf.tableName), relations)
       THEN LET ts == <<NewTab(t.lf, QueryResult(PreviewQuery(t.lf.tableName)))>>
            IN  /\ tabs' = ts
                /\ activeTabId' = t.lf.tableName
                /\ gridFilter' \in GridNext(ts, t.lf.tableName, showFileSelector,
                                            isRestoring)
                /\ searchError' = RegexSearchNext(ts, t.lf.tableName, showFileSelector, isRestoring)
       ELSE UNCHANGED <<tabs, activeTabId, gridFilter, searchError>>
  /\ tasks' = Finish(tasks, t)
  /\ UNCHANGED <<relations, loadedFiles, showFileSelector, showJoinWizard,
                 isFileLoading, isQueryRunning, isRestoring, error,
                 restoreNotification, files, lastUsedFileId, restore, wizard,
                 nOps,
                 lastTabEvent, isExporting, downloads, configurator, lastIssued>>

\* --------------------------------------------------------- clear saved data

handleClearSavedData ==
  /\ Interactive
  /\ CanStart
  /\ nOps' = nOps + 1
  /\ tasks' = Spawn(tasks, [kind |-> "clear", pc |-> "clearAll"])
  /\ UNCHANGED <<relations, loadedFiles, tabs, activeTabId, showFileSelector,
                 showJoinWizard, isFileLoading, isQueryRunning, isRestoring,
                 error, restoreNotification, gridFilter, searchError, files, lastUsedFileId,
                 restore, wizard,
                 lastTabEvent, isExporting, downloads, configurator, lastIssued>>

\* clearSavedData: await clearAllPersistedFiles(); a failure is caught by
\* handleClearSavedData (console.error)
clearSavedData_clearAll(t, ok) ==
  /\ t \in BagToSet(tasks) /\ t.kind = "clear" /\ t.pc = "clearAll"
  /\ \/ /\ ok
        /\ files' = {}
        /\ tasks' = Step(tasks, t, [t EXCEPT !.pc = "setNull"])
     \/ /\ ~ok
        /\ tasks' = Finish(tasks, t)
        /\ UNCHANGED files
  /\ UNCHANGED <<relations, loadedFiles, tabs, activeTabId, showFileSelector,
                 showJoinWizard, isFileLoading, isQueryRunning, isRestoring,
                 error, restoreNotification, gridFilter, searchError, lastUsedFileId,
                 restore, wizard, nOps,
                 lastTabEvent, isExporting, downloads, configurator, lastIssued>>

\* clearSavedData: await setSetting(LAST_FILE_ID_KEY, null); then
\* setRestoreNotification('Saved data cleared')
clearSavedData_setSetting(t, ok) ==
  /\ t \in BagToSet(tasks) /\ t.kind = "clear" /\ t.pc = "setNull"
  /\ \/ /\ ok
        /\ lastUsedFileId' = NoId
        /\ restoreNotification' = SavedDataCleared
     \/ ~ok /\ UNCHANGED <<lastUsedFileId, restoreNotification>>
  /\ tasks' = Finish(tasks, t)
  /\ UNCHANGED <<relations, loadedFiles, tabs, activeTabId, showFileSelector,
                 showJoinWizard, isFileLoading, isQueryRunning, isRestoring,
                 error, gridFilter, searchError, files, restore, wizard, nOps,
                 lastTabEvent, isExporting, downloads, configurator, lastIssued>>

\* -------------------------------------------------------------- join wizard

\* Names the user types for the joined table (valid identifiers): one that
\* is new and one that is the relation name of a loaded file.
JoinNames == { <<"j">>, <<"a">> }

JoinedSuffix == <<".", "j", "o", "i", "n", "e", "d">>

WizardShown == ~isRestoring /\ showJoinWizard

\* the "Join Tables" button
openJoinWizard ==
  /\ Interactive
  /\ Len(loadedFiles) >= 1
  /\ ~showJoinWizard
  /\ CanStart
  /\ nOps' = nOps + 1
  /\ showJoinWizard' = TRUE
  /\ wizard' = [WizardInit EXCEPT !.id = nOps + 1]
  /\ UNCHANGED <<relations, loadedFiles, tabs, activeTabId, showFileSelector,
                 isFileLoading, isQueryRunning, isRestoring, error,
                 restoreNotification, gridFilter, searchError, files, lastUsedFileId,
                 restore, tasks,
                 lastTabEvent, isExporting, downloads, configurator, lastIssued>>

\* onCancel
cancelJoinWizard ==
  /\ WizardShown
  /\ showJoinWizard' = FALSE
  /\ wizard' = WizardInit
  /\ UNCHANGED <<relations, loadedFiles, tabs, activeTabId, showFileSelector,
                 isFileLoading, isQueryRunning, isRestoring, error,
                 restoreNotification, gridFilter, searchError, files, lastUsedFileId,
                 restore, tasks, nOps,
                 lastTabEvent, isExporting, downloads, configurator, lastIssued>>

WizardUnchanged ==
  UNCHANGED <<relations, loadedFiles, tabs, activeTabId, showFileSelector,
              showJoinWizard, isFileLoading, isQueryRunning, isRestoring,
              error, restoreNotification, gridFilter, searchError, files, lastUsedFileId,
              restore, nOps,
                 lastTabEvent, isExporting, downloads, configurator, lastIssued>>

\* TableSelector: pick a catalog entry for a side (the other side's entry is
\* not offered), or remove the side's entry
handleTableSelect(side, choice) ==
  /\ WizardShown
  /\ wizard.step = "select"
  /\ \/ /\ side = "left" /\ wizard.left = {} /\ choice # {}
        /\ choice \subseteq Range(loadedFiles) \ wizard.right
        /\ wizard' = [wizard EXCEPT !.left = choice]
     \/ /\ side = "right" /\ wizard.right = {} /\ choice # {}
        /\ choice \subseteq Range(loadedFiles) \ wizard.left
        /\ wizard' = [wizard EXCEPT !.right = choice]
     \/ /\ side = "left" /\ wizard.left # {} /\ choice = {}
        /\ wizard' = [wizard EXCEPT !.left = {}]
     \/ /\ side = "right" /\ wizard.right # {} /\ choice = {}
        /\ wizard' = [wizard EXCEPT !.right = {}]
  /\ UNCHANGED tasks
  /\ WizardUnchanged

The(S) == CHOOSE x \in S : TRUE

\* select -> preview; the effect runs loadPreviews: Promise.all of two
\* executeQuery calls
wizardToPreview ==
  /\ WizardShown
  /\ CanSpawn
  /\ wizard.step \in {"select", "configure"}
  /\ wizard.left # {} /\ wizard.right # {}
  /\ wizard' = [wizard EXCEPT !.step = "preview"]
  /\ tasks' = Spawn(tasks, [kind |-> "previews", pc |-> "previews", pending |-> 2,
                            wiz |-> wizard.id])
  /\ WizardUnchanged

\* one of the two preview queries of loadPreviews returns or throws
loadPreviews_return(t) ==
  /\ t \in BagToSet(tasks) /\ t.kind = "previews" /\ t.pc = "previews"
  /\ tasks' = IF t.pending = 1 THEN Finish(tasks, t)
              ELSE Step(tasks, t, [t EXCEPT !.pending = t.pending - 1])
  /\ UNCHANGED wizard
  /\ WizardUnchanged

\* preview -> select (Back), preview -> configure (Next), result -> configure;
\* the wizard renders <JoinConfigurator> in step 'configure' only, so the
\* step mounts a new instance with its initial state
wizardSetStep(to) ==
  /\ WizardShown
  /\ \/ wizard.step = "preview" /\ to \in {"select", "configure"}
     \/ wizard.step = "result" /\ to = "configure"
  /\ wizard' = [wizard EXCEPT !.step = to]
  /\ configurator' = IF to = "configure"
                       THEN JoinConfigurator(The(wizard.left), The(wizard.right))
                       ELSE configurator
  /\ UNCHANGED <<relations, loadedFiles, tabs, activeTabId, showFileSelector,
                 showJoinWizard, isFileLoading, isQueryRunning, isRestoring,
                 error, restoreNotification, gridFilter, searchError, files,
                 lastUsedFileId, restore, tasks, nOps, lastTabEvent, isExporting,
                 downloads, lastIssued>>

\* JoinConfigurator is on screen.
ConfiguratorShown == WizardShown /\ wizard.step = "configure"

ConfiguratorUnchanged ==
  UNCHANGED <<relations, loadedFiles, tabs, activeTabId, showFileSelector,
              showJoinWizard, isFileLoading, isQueryRunning, isRestoring,
              error, restoreNotification, gridFilter, searchError, files,
              lastUsedFileId, restore, tasks, wizard, nOps, lastTabEvent,
              isExporting, downloads, lastIssued>>

\* the effect on [leftPrefix, rightPrefix, getColumnAlias]: every selected
\* column gets the alias of the prefixes of this render
UpdateAliases(selected, lPrefix, rPrefix) ==
  [i \in DOMAIN selected |->
     [selected[i] EXCEPT !.alias =
        getColumnAlias(selected[i].table, selected[i].column, lPrefix, rPrefix,
                       The(wizard.left), The(wizard.right))]]

\* the prefix inputs' onChange: setLeftPrefix / setRightPrefix, the render, and
\* the alias effect, which React runs before it handles the next input event
setPrefix(side, value) ==
  /\ ConfiguratorShown
  /\ LET lPrefix == IF side = "left" THEN value ELSE configurator.leftPrefix
         rPrefix == IF side = "right" THEN value ELSE configurator.rightPrefix
     IN  configurator' =
           [configurator EXCEPT
              !.leftPrefix = lPrefix, !.rightPrefix = rPrefix,
              !.selectedColumns =
                UpdateAliases(configurator.selectedColumns, lPrefix, rPrefix)]
  /\ ConfiguratorUnchanged

\* a column's checkbox
toggleColumn(tbl, column) ==
  /\ ConfiguratorShown
  /\ column \in Range(TableColumns(The(IF tbl = "left" THEN wizard.left
                                                       ELSE wizard.right).tableName))
  /\ LET selected == configurator.selectedColumns
         existing == {i \in DOMAIN selected :
                        selected[i].table = tbl /\ selected[i].column = column}
         Others(c) == ~(c.table = tbl /\ c.column = column)
     IN  configurator' =
           [configurator EXCEPT !.selectedColumns =
              IF existing # {}
                THEN SelectSeq(selected, Others)
                ELSE Append(selected,
                       SelectedColumn(tbl, column,
                         getColumnAlias(tbl, column, configurator.leftPrefix,
                                        configurator.rightPrefix,
                                        The(wizard.left), The(wizard.right))))]
  /\ ConfiguratorUnchanged

\* The join types and operators the user picks in the selects.
JOIN_TYPES == {"INNER", "FULL OUTER"}
OPERATORS == {"=", "<"}

\* The number of conditions the user adds at most.
MaxConditions == 2

\* the join type select
setJoinType(joinType) ==
  /\ ConfiguratorShown
  /\ configurator' = [configurator EXCEPT !.joinType = joinType]
  /\ ConfiguratorUnchanged

\* "+ Add condition"
addCondition ==
  /\ ConfiguratorShown
  /\ Len(configurator.conditions) < MaxConditions
  /\ configurator' =
       [configurator EXCEPT !.conditions =
          Append(@, NewCondition(The(wizard.left), The(wizard.right)))]
  /\ ConfiguratorUnchanged

\* the "x" of a condition: if (conditions.length > 1) filter it out
removeCondition(index) ==
  /\ ConfiguratorShown
  /\ index \in DOMAIN configurator.conditions
  /\ configurator' =
       [configurator EXCEPT !.conditions =
          IF Len(@) > 1
            THEN SubSeq(@, 1, index - 1) \o SubSeq(@, index + 1, Len(@))
            ELSE @]
  /\ ConfiguratorUnchanged

\* the three selects of a condition; each offers the columns of its table,
\* or OPERATORS
updateCondition(index, field, value) ==
  /\ ConfiguratorShown
  /\ index \in DOMAIN configurator.conditions
  /\ \/ /\ field = "leftColumn"
        /\ value \in Range(TableColumns(The(wizard.left).tableName))
        /\ configurator' = [configurator EXCEPT !.conditions[index].leftColumn = value]
     \/ /\ field = "rightColumn"
        /\ value \in Range(TableColumns(The(wizard.right).tableName))
        /\ configurator' = [configurator EXCEPT !.conditions[index].rightColumn = value]
     \/ /\ field = "operator"
        /\ value \in {<<op>> : op \in OPERATORS}
        /\ configurator' = [configurator EXCEPT !.conditions[index].operator = value[1]]
  /\ ConfiguratorUnchanged

\* a canProceed that does not look at the selected columns
canProceed_conditionsOnly(conditions, selectedColumns) ==
  /\ Len(conditions) > 0
  /\ \A i \in DOMAIN conditions :
       conditions[i].leftColumn # <<>> /\ conditions[i].rightColumn # <<>>

\* canProceed: the Next button is disabled without it
canProceed(conditions, selectedColumns) ==
  /\ Len(conditions) > 0
  /\ \A i \in DOMAIN conditions :
       conditions[i].leftColumn # <<>> /\ conditions[i].rightColumn # <<>>
  /\ Len(selectedColumns) > 0

\* JoinConfigurator's sqlPreview, the text shown under the form
sqlPreview(selectedColumns, conditions, joinType, leftTable, rightTable) ==
  LET cols == [i \in DOMAIN selectedColumns |->
                 LET c == selectedColumns[i]
                 IN  [alias |-> IF c.table = "left" THEN "t1" ELSE "t2",
                      column |-> c.column, as |-> c.alias]]
      conds == [i \in DOMAIN conditions |->
                  LET c == conditions[i]
                  IN  [t1 |-> c.leftColumn, operator |-> c.operator,
                       t2 |-> c.rightColumn]]
      joinSQL == IF joinType = "FULL OUTER" THEN <<"FULL OUTER", "JOIN">>
                                            ELSE <<joinType, "JOIN">>
  IN  [select |-> cols, from |-> leftTable.tableName, join |-> joinSQL,
       with |-> rightTable.tableName, on |-> conds]

\* generatePreview's first query: the join, LIMIT 100
generatePreview_sql(selectedTables, joinConfig) ==
  LET cols == [i \in DOMAIN joinConfig.selectedColumns |->
                 LET c == joinConfig.selectedColumns[i]
                 IN  [alias |-> IF c.table = "left" THEN "t1" ELSE "t2",
                      column |-> c.column, as |-> c.alias]]
      conds == [i \in DOMAIN joinConfig.conditions |->
                  LET c == joinConfig.conditions[i]
                  IN  [t1 |-> c.leftColumn, operator |-> c.operator,
                       t2 |-> c.rightColumn]]
      joinSQL == IF joinConfig.joinType = "FULL OUTER"
                   THEN <<"FULL OUTER", "JOIN">>
                   ELSE <<joinConfig.joinType, "JOIN">>
  IN  [select |-> cols, from |-> selectedTables[1].tableName, join |-> joinSQL,
       with |-> selectedTables[2].tableName, on |-> conds, limit |-> 100]

\* generatePreview's second query: SELECT COUNT(*) as cnt over the join
generatePreview_countSQL(selectedTables, joinConfig) ==
  LET conds == [i \in DOMAIN joinConfig.conditions |->
                  LET c == joinConfig.conditions[i]
                  IN  [t1 |-> c.leftColumn, operator |-> c.operator,
                       t2 |-> c.rightColumn]]
      joinSQL == IF joinConfig.joinType = "FULL OUTER"
                   THEN <<"FULL OUTER", "JOIN">>
                   ELSE <<joinConfig.joinType, "JOIN">>
  IN  [select |-> "COUNT(*) as cnt", from |-> selectedTables[1].tableName,
       join |-> joinSQL, with |-> selectedTables[2].tableName, on |-> conds]

\* a createJoinedTable that selects the columns without their aliases
createJoinedTable_sql_noAlias(config, newTableName) ==
  LET columnSelections ==
        [i \in DOMAIN config.selectedColumns |->
           LET col == config.selectedColumns[i]
           IN  [alias |-> IF col.table = "left" THEN "t1" ELSE "t2",
                column |-> col.column, as |-> NoAlias]]
      conditions == [i \in DOMAIN config.joinConditions |->
                       LET cond == config.joinConditions[i]
                       IN  [t1 |-> cond.leftColumn, operator |-> cond.operator,
                            t2 |-> cond.rightColumn]]
      joinTypeSQL == IF config.joinType = "FULL OUTER"
                       THEN <<"FULL OUTER", "JOIN">>
                       ELSE <<config.joinType, "JOIN">>
  IN  [create |-> sanitizeTableName(newTableName),
       select |-> columnSelections, from |-> config.leftTable.tableName,
       join |-> joinTypeSQL, with |-> config.rightTable.tableName,
       on |-> conditions]

\* createJoinedTable's CREATE TABLE "name" AS SELECT ...
createJoinedTable_sql(config, newTableName) ==
  LET columnSelections ==
        [i \in DOMAIN config.selectedColumns |->
           LET col == config.selectedColumns[i]
           IN  [alias |-> IF col.table = "left" THEN "t1" ELSE "t2",
                column |-> col.column, as |-> col.alias]]
      conditions == [i \in DOMAIN config.joinConditions |->
                       LET cond == config.joinConditions[i]
                       IN  [t1 |-> cond.leftColumn, operator |-> cond.operator,
                            t2 |-> cond.rightColumn]]
      joinTypeSQL == IF config.joinType = "FULL OUTER"
                       THEN <<"FULL OUTER", "JOIN">>
                       ELSE <<config.joinType, "JOIN">>
  IN  [create |-> sanitizeTableName(newTableName),
       select |-> columnSelections, from |-> config.leftTable.tableName,
       join |-> joinTypeSQL, with |-> config.rightTable.tableName,
       on |-> conditions]

\* JoinConfigurator's onNext(config): setJoinConfig, step 'result'; the
\* effect runs generatePreview and awaits the preview query
wizardToResult ==
  /\ WizardShown
  /\ CanSpawn
  /\ wizard.step = "configure"
  /\ canProceed(configurator.conditions, configurator.selectedColumns)
  /\ LET joinConfig == [joinType |-> configurator.joinType,
                        conditions |-> configurator.conditions,
                        selectedColumns |-> configurator.selectedColumns]
         selectedTables == <<The(wizard.left), The(wizard.right)>>
     IN  /\ wizard' = [wizard EXCEPT !.step = "result", !.config = TRUE,
                                     !.joinConfig = <<joinConfig>>]
         /\ tasks' = Spawn(tasks, [kind |-> "joinpreview", pc |-> "preview",
                            left |-> The(wizard.left).tableName,
                            right |-> The(wizard.right).tableName,
                            sql |-> generatePreview_sql(selectedTables, joinConfig),
                            countSQL |-> generatePreview_countSQL(selectedTables, joinConfig),
                            wiz |-> wizard.id])
  /\ WizardUnchanged

JoinSucceeds(left, right, rels) == left \in rels /\ right \in rels

\* generatePreview: the preview query returns; the count query is awaited
generatePreview_preview(t) ==
  /\ t \in BagToSet(tasks) /\ t.kind = "joinpreview" /\ t.pc = "preview"
  /\ tasks' = IF JoinSucceeds(t.left, t.right, relations)
                THEN Step(tasks, t, [t EXCEPT !.pc = "count"])
                ELSE Finish(tasks, t)
  /\ UNCHANGED wizard
  /\ WizardUnchanged

\* generatePreview: the count query returns; setResultPreview
generatePreview_count(t) ==
  /\ t \in BagToSet(tasks) /\ t.kind = "joinpreview" /\ t.pc = "count"
  /\ tasks' = Finish(tasks, t)
  /\ wizard' = IF JoinSucceeds(t.left, t.right, relations) /\ showJoinWizard
                    /\ wizard.id = t.wiz
                 THEN [wizard EXCEPT !.preview = TRUE,
                         !.resultPreview = <<[of |-> t.sql, rowCount |-> t.countSQL]>>]
                 ELSE wizard
  /\ WizardUnchanged

\* JoinResult's "Create Table": handleSave -> createJoinedTable, which starts
\* with DROP TABLE IF EXISTS on the target name
handleSave(newTableName) ==
  /\ WizardShown
  /\ CanSpawn
  /\ wizard.step = "result"
  /\ wizard.preview /\ ~wizard.saving
  /\ wizard.left # {} /\ wizard.right # {} /\ wizard.config
  /\ wizard' = [wizard EXCEPT !.saving = TRUE]
  /\ LET joinConfig == wizard.joinConfig[1]
         config == [leftTable |-> The(wizard.left), rightTable |-> The(wizard.right),
                    joinType |-> joinConfig.joinType,
                    joinConditions |-> joinConfig.conditions,
                    selectedColumns |-> joinConfig.selectedColumns]
     IN  tasks' = Spawn(tasks, [kind |-> "join", pc |-> "drop",
                            left |-> The(wizard.left).tableName,
                            right |-> The(wizard.right).tableName,
                            sql |-> createJoinedTable_sql(config, newTableName),
                            name |-> newTableName, wiz |-> wizard.id])
  /\ WizardUnchanged

\* handleSave's catch (setError in the wizard) and JoinResult's finally
handleSave_catch(t) ==
  /\ tasks' = Finish(tasks, t)
  /\ wizard' = IF showJoinWizard /\ wizard.id = t.wiz
                 THEN [wizard EXCEPT !.saving = FALSE]
                 ELSE wizard

createJoinedTable_drop(t) ==
  /\ t \in BagToSet(tasks) /\ t.kind = "join" /\ t.pc = "drop"
  /\ relations' = relations \ {sanitizeTableName(t.name)}
  /\ tasks' = Step(tasks, t, [t EXCEPT !.pc = "create"])
  /\ UNCHANGED <<loadedFiles, tabs, activeTabId, showFileSelector,
                 showJoinWizard, isFileLoading, isQueryRunning, isRestoring,
                 error, restoreNotification, gridFilter, searchError, files, lastUsedFileId,
                 restore, wizard, nOps,
                 lastTabEvent, isExporting, downloads, configurator, lastIssued>>

createJoinedTable_create(t) ==
  /\ t \in BagToSet(tasks) /\ t.kind = "join" /\ t.pc = "create"
  /\ IF CreateSucceeds(JoinSucceeds(t.left, t.right, relations),
                       sanitizeTableName(t.name), relations)
       THEN /\ relations' = relations \cup {sanitizeTableName(t.name)}
            /\ tasks' = Step(tasks, t, [t EXCEPT !.pc = "describe"])
            /\ UNCHANGED wizard
       ELSE /\ handleSave_catch(t)
            /\ UNCHANGED relations
  /\ UNCHANGED <<loadedFiles, tabs, activeTabId, showFileSelector,
                 showJoinWizard, isFileLoading, isQueryRunning, isRestoring,
                 error, restoreNotification, gridFilter, searchError, files, lastUsedFileId,
                 restore, nOps,
                 lastTabEvent, isExporting, downloads, configurator, lastIssued>>

createJoinedTable_describe(t) ==
  /\ t \in BagToSet(tasks) /\ t.kind = "join" /\ t.pc = "describe"
  /\ IF sanitizeTableName(t.name) \in relations
       THEN /\ tasks' = Step(tasks, t, [t EXCEPT !.pc = "count"])
            /\ UNCHANGED wizard
       ELSE handleSave_catch(t)
  /\ WizardUnchanged

\* createJoinedTable: COUNT(*) returns, setLoadedFiles, return; handleSave
\* calls onComplete = handleJoinComplete: setShowJoinWizard(false) and the
\* await of the preview query
createJoinedTable_count(t) ==
  /\ t \in BagToSet(tasks) /\ t.kind = "join" /\ t.pc = "count"
  /\ IF sanitizeTableName(t.name) \in relations
       THEN /\ loadedFiles' = UpsertLoadedFile(loadedFiles,
                 LoadedFile(t.name \o JoinedSuffix, sanitizeTableName(t.name), "csv"))
            /\ showJoinWizard' = FALSE
            /\ wizard' = WizardInit
            /\ tasks' = Step(tasks, t, [t EXCEPT !.pc = "preview"])
       ELSE /\ handleSave_catch(t)
            /\ UNCHANGED <<loadedFiles, showJoinWizard>>
  /\ UNCHANGED <<relations, tabs, activeTabId, showFileSelector,
                 isFileLoading, isQueryRunning, isRestoring, error,
                 restoreNotification, gridFilter, searchError, files, lastUsedFileId,
                 restore, nOps,
                 lastTabEvent, isExporting, downloads, configurator, lastIssued>>

\* handleJoinComplete: the preview query returns (the tab is added and made
\* active) or throws (nothing catches it)
handleJoinComplete_preview(t) ==
  /\ t \in BagToSet(tasks) /\ t.kind = "join" /\ t.pc = "preview"
  /\ LET tn == sanitizeTableName(t.name)
         lf == LoadedFile(t.name \o JoinedSuffix, tn, "csv")
     IN  IF QuerySucceeds(PreviewQuery(tn), relations)
           THEN LET ts == Append(tabs, NewTab(lf, QueryResult(PreviewQuery(tn))))
                IN  /\ tabs' = ts
                    /\ activeTabId' = tn
                    /\ gridFilter' \in GridNext(ts, tn, showFileSelector, isRestoring)
                    /\ searchError' = RegexSearchNext(ts, tn, showFileSelector, isRestoring)
           ELSE UNCHANGED <<tabs, activeTabId, gridFilter, searchError>>
  /\ tasks' = Finish(tasks, t)
  /\ UNCHANGED <<relations, loadedFiles, showFileSelector, showJoinWizard,
                 isFileLoading, isQueryRunning, isRestoring, error,
                 restoreNotification, files, lastUsedFileId, restore, wizard,
                 nOps,
                 lastTabEvent, isExporting, downloads, configurator, lastIssued>>

\* -------------------------------------------------------------- page load

\* The App component mounts on a page (re)load: every useState and the
\* engine start from their initial values, the suspended handlers of the old
\* page are gone; IndexedDB keeps the store and the pointer.
reloadPage ==
  /\ nOps < MaxOps
  /\ nOps' = nOps + 1
  /\ relations' = {}
  /\ loadedFiles' = <<>>
  /\ tabs' = <<>>
  /\ activeTabId' = NoId
  /\ showFileSelector' = FALSE
  /\ showJoinWizard' = FALSE
  /\ isFileLoading' = FALSE
  /\ isQueryRunning' = FALSE
  /\ isRestoring' = FALSE
  /\ error' = Null
  /\ restoreNotification' = Null
  /\ gridFilter' = EmptyFilter
  /\ searchError' = Null
  /\ restore' = [pc |-> "getLastId", id |-> NoId, rec |-> {}, outcome |-> "pending"]
  /\ tasks' = EmptyBag
  /\ wizard' = WizardInit
  /\ isExporting' = FALSE
  /\ UNCHANGED <<files, lastUsedFileId, lastTabEvent, downloads, configurator, lastIssued>>

\* ------------------------------------------------------------------ export

\* The rows a relation holds, numbered from 1: the table of a.csv has one
\* row more than the preview query returns, every other relation one row.
RowCount(tableName) ==
  IF tableName = sanitizeTableName(<<"a", ".", "c", "s", "v">>)
    THEN PreviewLimit + 1
    ELSE 1
TableRows(tableName) == 1 .. RowCount(tableName)

\* The columns of every relation.
Columns == {"x", "y"}

\* The sets of columns the user can have left visible in the grid.
ColumnChoices == {Columns, {"x"}, {}}

\* Whether a row passes a column-filter model of the grid.
FilterMatches(model, r) == model = EmptyFilter \/ r >= 2

\* The text of a cell, CAST(col AS VARCHAR): row 1 holds ab and 50, row 2 AxB
\* and the empty string, row 3 o'c and a_b.
CellText(r, column) ==
  IF column = "x"
    THEN << <<"a", "b">>, <<"A", "x", "B">>, <<"o", "'", "c">> >>[r]
    ELSE << <<"5", "0">>, <<>>, <<"a", "_", "b">> >>[r]

\* String.prototype.trim on a text of characters
RECURSIVE trimStart(_)
trimStart(s) == IF s # <<>> /\ Head(s) = " " THEN trimStart(Tail(s)) ELSE s

Reverse(s) == [i \in DOMAIN s |-> s[Len(s) + 1 - i]]

trimChars(s) == Reverse(trimStart(Reverse(trimStart(s))))

\* replace(/'/g, "''")
RECURSIVE escapeQuotes(_)
escapeQuotes(s) ==
  IF s = <<>> THEN <<>>
  ELSE IF Head(s) = "'" THEN <<"'", "'">> \o escapeQuotes(Tail(s))
  ELSE <<Head(s)>> \o escapeQuotes(Tail(s))

\* The value of the SQL string literal whose body is s: '' stands for '
RECURSIVE StringLiteral(_)
StringLiteral(s) ==
  IF s = <<>> THEN <<>>
  ELSE IF Len(s) >= 2 /\ s[1] = "'" /\ s[2] = "'"
    THEN <<"'">> \o StringLiteral(SubSeq(s, 3, Len(s)))
  ELSE <<Head(s)>> \o StringLiteral(Tail(s))

\* The engine's text ILIKE pattern: % stands for any text, _ for any one
\* character, every other character for itself in either case.
RECURSIVE ILIKE(_, _)
ILIKE(text, pattern) ==
  IF pattern = <<>> THEN text = <<>>
  ELSE IF Head(pattern) = "%"
    THEN ILIKE(text, Tail(pattern)) \/ (text # <<>> /\ ILIKE(Tail(text), pattern))
  ELSE /\ text # <<>>
       /\ Head(pattern) = "_" \/ LowerChar(Head(pattern)) = LowerChar(Head(text))
       /\ ILIKE(Tail(text), Tail(pattern))

\* exportWithFilters' quick filter: no clause for a blank text, else
\* (CAST("c" AS VARCHAR) ILIKE '%term%' OR ...) over the visible columns
quickFilterClause(quickFilterText, visibleColumns) ==
  IF quickFilterText # <<>> /\ trimChars(quickFilterText) # <<>>
    THEN LET searchTerm == escapeQuotes(trimChars(quickFilterText))
         IN  <<[columns |-> visibleColumns,
                literal |-> <<"%">> \o searchTerm \o <<"%">>]>>
    ELSE <<>>

\* Whether row r satisfies the WHERE clauses of a quick filter.
QuickMatches(quick, r) ==
  \A i \in DOMAIN quick :
    \E column \in quick[i].columns :
      ILIKE(CellText(r, column), StringLiteral(quick[i].literal))

\* SELECT cols FROM "t" WHERE ..., the SQL exportWithFilters builds
FilterQuery(t, cols, quickFilterText, model) ==
  [kind |-> "filtered", table |-> t, columns |-> cols,
   quick |-> quickFilterClause(quickFilterText, cols), filter |-> model]

\* The rows and columns the engine returns for a SQL text.
Rows(sql) ==
  CASE sql.kind = "all" -> TableRows(sql.table)
    [] sql.kind = "limit" -> {r \in TableRows(sql.table) : r <= PreviewLimit}
    [] sql.kind = "search" -> {r \in TableRows(sql.table) : r # 1}
    [] sql.kind = "user" -> {r \in TableRows(sql.table) : r # 2}
    [] sql.kind = "filtered" ->
         {r \in TableRows(sql.table) :
            QuickMatches(sql.quick, r) /\ FilterMatches(sql.filter, r)}
    [] OTHER -> {}
ColumnsOf(sql) == IF sql.kind = "filtered" THEN sql.columns ELSE Columns

\* DataGridHandle.getDisplayedData: the rows of the grid's data that pass
\* its filters, cut down to the visible columns
getDisplayedData(tab, visible) ==
  [columns |-> visible,
   rows |-> {r \in Rows(tab.queryResult.of) : FilterMatches(gridFilter, r)}]

\* DataGridHandle.getExportParams
getExportParams(visible) ==
  [visibleColumns |-> visible,
   quickFilterText |-> ActiveTab(tabs, activeTabId).quickFilter,
   filterModel |-> gridFilter]

\* The formats of ExportPanel's FORMAT_OPTIONS that take different branches.
ExportFormats == {"csv", "json", "parquet"}
CopyFormats == {"csv", "tsv", "parquet"}
SelectFormats == {"json", "xlsx", "xls"}

NoDataToExport == "No data to export"
ExportError == "Export failed"

DecimalDigit(n) == <<"0", "1", "2", "3", "4", "5", "6", "7", "8", "9">>[n + 1]

\* `_export_${Date.now()}`
tempTable(now) == <<"_", "e", "x", "p", "o", "r", "t", "_", DecimalDigit(now)>>

Blob(rows, columns, format) == [rows |-> rows, columns |-> columns, format |-> format]

\* ExportPanel's button is on screen and enabled.
ExportEnabled == Interactive /\ MainViewShown /\ ~isExporting

ExportUnchanged ==
  UNCHANGED <<loadedFiles, tabs, activeTabId, showFileSelector, showJoinWizard,
              isFileLoading, isQueryRunning, isRestoring, restoreNotification,
              gridFilter, searchError, files, lastUsedFileId, restore, wizard,
              lastTabEvent, configurator, lastIssued>>

\* a catch that hands what the export had so far to downloadBlob
handleExport_catch_partial(t, message) ==
  /\ error' = message
  /\ isExporting' = FALSE
  /\ tasks' = Finish(tasks, t)
  /\ downloads' = Append(downloads, Blob(t.data.rows, t.data.columns, t.format))
  /\ UNCHANGED nOps
  /\ ExportUnchanged

\* handleExport's catch and finally
handleExport_catch(t, message) ==
  /\ error' = message
  /\ isExporting' = FALSE
  /\ tasks' = Finish(tasks, t)
  /\ UNCHANGED <<downloads, nOps>>
  /\ ExportUnchanged

\* downloadBlob(blob, filename), then handleExport's finally
handleExport_downloadBlob(t, blob) ==
  /\ downloads' = Append(downloads, blob)
  /\ isExporting' = FALSE
  /\ tasks' = Finish(tasks, t)
  /\ UNCHANGED <<error, nOps>>
  /\ ExportUnchanged

\* history: what the user had on screen when they clicked Export: the
\* current file's table, the query whose rows the grid holds, the tab's
\* lastQuery, the grid's filter model and its visible columns
ExportClick(visible) ==
  LET tab == ActiveTab(tabs, activeTabId)
  IN  [table |-> tab.file.tableName, shown |-> tab.queryResult.of,
       lastQuery |-> tab.lastQuery, filter |-> gridFilter, visible |-> visible]

\* handleExport of the tabbed App: exports the rows the grid displays.  With
\* no displayed row it throws before its first await, and its catch and
\* finally run in the same turn.
handleExport(format, visible) ==
  /\ ExportEnabled
  /\ LET displayedData == getDisplayedData(ActiveTab(tabs, activeTabId), visible)
     IN  IF displayedData.rows = {}
           THEN /\ error' = NoDataToExport
                /\ isExporting' = FALSE
                /\ UNCHANGED <<tasks, nOps>>
           ELSE /\ CanStart
                /\ nOps' = nOps + 1
                /\ error' = Null
                /\ isExporting' = TRUE
                /\ tasks' = Spawn(tasks,
                     [kind |-> "export",
                      pc |-> IF format = "parquet" THEN "exportFromData_create"
                                                   ELSE "exportFromData_blob",
                      data |-> displayedData, format |-> format,
                      pending |-> Cardinality(displayedData.rows),
                      now |-> nOps + 1, click |-> ExportClick(visible)])
  /\ UNCHANGED <<relations, downloads>>
  /\ ExportUnchanged

\* exportFromData for json, xlsx, csv and tsv: the blob is built in memory
exportFromData_blob(t) ==
  /\ t \in BagToSet(tasks) /\ t.kind = "export" /\ t.pc = "exportFromData_blob"
  /\ handleExport_downloadBlob(t, Blob(t.data.rows, t.data.columns, t.format))
  /\ UNCHANGED relations

\* exportFromData for parquet: await conn.query(CREATE TEMP TABLE ...)
exportFromData_create(t) ==
  /\ t \in BagToSet(tasks) /\ t.kind = "export" /\ t.pc = "exportFromData_create"
  /\ relations' = relations \cup {tempTable(t.now)}
  /\ tasks' = Step(tasks, t, [t EXCEPT !.pc = "exportFromData_insert"])
  /\ UNCHANGED <<error, isExporting, downloads, nOps>>
  /\ ExportUnchanged

\* await conn.query(INSERT INTO ...), once for every row
exportFromData_insert(t) ==
  /\ t \in BagToSet(tasks) /\ t.kind = "export" /\ t.pc = "exportFromData_insert"
  /\ tasks' = Step(tasks, t,
                   IF t.pending > 1
                     THEN [t EXCEPT !.pending = t.pending - 1]
                     ELSE [t EXCEPT !.pending = 0, !.pc = "exportFromData_copy"])
  /\ UNCHANGED <<relations, error, isExporting, downloads, nOps>>
  /\ ExportUnchanged

\* await conn.query(COPY ... TO ... (FORMAT PARQUET)); ok: the engine wrote
\* the file
exportFromData_copy(t, ok) ==
  /\ t \in BagToSet(tasks) /\ t.kind = "export" /\ t.pc = "exportFromData_copy"
  /\ IF ok
       THEN /\ tasks' = Step(tasks, t, [t EXCEPT !.pc = "exportFromData_buffer"])
            /\ UNCHANGED <<error, isExporting, downloads, nOps>>
            /\ ExportUnchanged
       ELSE handleExport_catch(t, ExportError)
  /\ UNCHANGED relations

\* await db.copyFileToBuffer(exportFile)
exportFromData_copyFileToBuffer(t) ==
  /\ t \in BagToSet(tasks) /\ t.kind = "export" /\ t.pc = "exportFromData_buffer"
  /\ tasks' = Step(tasks, t, [t EXCEPT !.pc = "exportFromData_drop"])
  /\ UNCHANGED <<relations, error, isExporting, downloads, nOps>>
  /\ ExportUnchanged

\* await conn.query(DROP TABLE ...), return of the blob, downloadBlob
exportFromData_drop(t) ==
  /\ t \in BagToSet(tasks) /\ t.kind = "export" /\ t.pc = "exportFromData_drop"
  /\ relations' = relations \ {tempTable(t.now)}
  /\ handleExport_downloadBlob(t, Blob(t.data.rows, t.data.columns, t.format))

\* handleExport of src/App.tsx: with visible columns it exports the current
\* file's table under the grid's filters (exportWithFilters), with none the
\* last query (exportData); lastQuery is never '' while there is a current
\* file.
App_handleExport(format, visible) ==
  /\ ExportEnabled
  /\ CanStart
  /\ nOps' = nOps + 1
  /\ error' = Null
  /\ isExporting' = TRUE
  /\ LET exportParams == getExportParams(visible)
         sql == IF exportParams.visibleColumns # {}
                  THEN FilterQuery(CurrentTable, exportParams.visibleColumns,
                                   exportParams.quickFilterText,
                                   exportParams.filterModel)
                  ELSE ActiveTab(tabs, activeTabId).lastQuery
     IN  tasks' = Spawn(tasks, [kind |-> "export", pc |-> "exportData_create",
                                sql |-> sql, format |-> format,
                                data |-> [columns |-> {}, rows |-> {}],
                                pending |-> 0, now |-> nOps + 1,
                                click |-> ExportClick(visible)])
  /\ UNCHANGED <<relations, downloads>>
  /\ ExportUnchanged

\* exportData: await conn.query(CREATE TEMP TABLE ... AS sql), then the
\* branch on the format; an unsupported format throws with the temporary
\* table in place
exportData_create(t) ==
  /\ t \in BagToSet(tasks) /\ t.kind = "export" /\ t.pc = "exportData_create"
  /\ IF ~QuerySucceeds(t.sql, relations)
       THEN /\ handleExport_catch(t, ExportError)
            /\ UNCHANGED relations
     ELSE IF t.format \notin CopyFormats \cup SelectFormats
       THEN /\ handleExport_catch(t, ExportError)
            /\ relations' = relations \cup {tempTable(t.now)}
     ELSE /\ relations' = relations \cup {tempTable(t.now)}
          /\ tasks' = Step(tasks, t,
               [t EXCEPT !.data = [columns |-> ColumnsOf(t.sql), rows |-> Rows(t.sql)],
                         !.pc = IF t.format \in CopyFormats THEN "exportData_copy"
                                                            ELSE "exportData_select"])
          /\ UNCHANGED <<error, isExporting, downloads, nOps>>
          /\ ExportUnchanged

\* await conn.query(COPY ... TO ...); ok: the engine wrote the file
exportData_copy(t, ok) ==
  /\ t \in BagToSet(tasks) /\ t.kind = "export" /\ t.pc = "exportData_copy"
  /\ IF ok
       THEN /\ tasks' = Step(tasks, t, [t EXCEPT !.pc = "exportData_buffer"])
            /\ UNCHANGED <<error, isExporting, downloads, nOps>>
            /\ ExportUnchanged
       ELSE handleExport_catch(t, ExportError)
  /\ UNCHANGED relations

\* await db.copyFileToBuffer(exportFile)
exportData_copyFileToBuffer(t) ==
  /\ t \in BagToSet(tasks) /\ t.kind = "export" /\ t.pc = "exportData_buffer"
  /\ tasks' = Step(tasks, t, [t EXCEPT !.pc = "exportData_drop"])
  /\ UNCHANGED <<relations, error, isExporting, downloads, nOps>>
  /\ ExportUnchanged

\* await executeQuery(SELECT * FROM tempTable), for json and xlsx
exportData_select(t) ==
  /\ t \in BagToSet(tasks) /\ t.kind = "export" /\ t.pc = "exportData_select"
  /\ IF tempTable(t.now) \in relations
       THEN /\ tasks' = Step(tasks, t, [t EXCEPT !.pc = "exportData_drop"])
            /\ UNCHANGED <<error, isExporting, downloads, nOps>>
            /\ ExportUnchanged
       ELSE handleExport_catch(t, ExportError)
  /\ UNCHANGED relations

\* await conn.query(DROP TABLE tempTable), return of the blob, downloadBlob
exportData_drop(t) ==
  /\ t \in BagToSet(tasks) /\ t.kind = "export" /\ t.pc = "exportData_drop"
  /\ relations' = relations \ {tempTable(t.now)}
  /\ handleExport_downloadBlob(t, Blob(t.data.rows, t.data.columns, t.format))

\* ------------------------------------------------------------ specification

\* The steps of the suspended handlers; oks are the outcomes the storage
\* calls can have (TRUE: the call succeeds).
LoadSteps(oks) ==
  \/ \E t \in BagToSet(tasks) : loadFile_drop(t)
  \/ \E t \in BagToSet(tasks) : loadFile_create(t)
  \/ \E t \in BagToSet(tasks) : loadFile_describe(t)
  \/ \E t \in BagToSet(tasks) : loadFile_count(t)
  \/ \E t \in BagToSet(tasks) : handleFileSelect_preview(t)
  \/ \E ok \in oks : \E t \in BagToSet(tasks) : saveFile_put(t, ok)
  \/ \E ok \in oks : \E t \in BagToSet(tasks) : saveFile_setSetting(t, ok)

RestoreSteps(oks) ==
  \/ \E ok \in oks : restoreLastFile_getLastUsedFileId(ok)
  \/ \E ok \in oks : restoreLastFile_getPersistedFile(ok)
  \/ loadFileFromContent_drop
  \/ loadFileFromContent_create
  \/ loadFileFromContent_describe
  \/ loadFileFromContent_count
  \/ restoreLastFile_preview
  \/ NotificationTimeout

ClearSteps(oks) ==
  \/ \E ok \in oks : \E t \in BagToSet(tasks) : clearSavedData_clearAll(t, ok)
  \/ \E ok \in oks : \E t \in BagToSet(tasks) : clearSavedData_setSetting(t, ok)

QuerySteps ==
  \/ \E t \in BagToSet(tasks) : executeQuery_return(t)
  \/ \E t \in BagToSet(tasks) : reopenLoadedFile_preview(t)

JoinSteps ==
  \/ \E t \in BagToSet(tasks) : loadPreviews_return(t)
  \/ \E t \in BagToSet(tasks) : generatePreview_preview(t)
  \/ \E t \in BagToSet(tasks) : generatePreview_count(t)
  \/ \E t \in BagToSet(tasks) : createJoinedTable_drop(t)
  \/ \E t \in BagToSet(tasks) : createJoinedTable_create(t)
  \/ \E t \in BagToSet(tasks) : createJoinedTable_describe(t)
  \/ \E t \in BagToSet(tasks) : createJoinedTable_count(t)
  \/ \E t \in BagToSet(tasks) : handleJoinComplete_preview(t)

ExportSteps(oks) ==
  \/ \E t \in BagToSet(tasks) : exportFromData_blob(t)
  \/ \E t \in BagToSet(tasks) : exportFromData_create(t)
  \/ \E t \in BagToSet(tasks) : exportFromData_insert(t)
  \/ \E ok \in oks : \E t \in BagToSet(tasks) : exportFromData_copy(t, ok)
  \/ \E t \in BagToSet(tasks) : exportFromData_copyFileToBuffer(t)
  \/ \E t \in BagToSet(tasks) : exportFromData_drop(t)
  \/ \E t \in BagToSet(tasks) : exportData_create(t)
  \/ \E ok \in oks : \E t \in BagToSet(tasks) : exportData_copy(t, ok)
  \/ \E t \in BagToSet(tasks) : exportData_copyFileToBuffer(t)
  \/ \E t \in BagToSet(tasks) : exportData_select(t)
  \/ \E t \in BagToSet(tasks) : exportData_drop(t)

\* What the user does in the tab bar and the file selector.
TabActions(names) ==
  \/ \E n \in names : handleTabSelect(sanitizeTableName(n))
  \/ \E n \in names : handleTabClose(sanitizeTableName(n))
  \/ \E v \in BOOLEAN : setShowFileSelector(v)

\* The restore and every earlier async operation have settled.
Settled == restore.pc = "done" /\ tasks = EmptyBag

\* When the user starts an async operation: a patient user only once
\* everything has settled, any other user at any moment.
Starts(patient) == patient => Settled

FileActions(patient, from) ==
  \E f \in from : Starts(patient) /\ handleFileSelect(f)

\* The async operations the user starts from the main view.
QueryActions(patient) ==
  \/ \E pattern \in Patterns, useRegex \in BOOLEAN :
       Starts(patient) /\ RegexSearch_handleSearch(pattern, useRegex)
  \/ \E valid \in BOOLEAN :
       /\ Starts(patient) /\ MainViewShown
       /\ handleQueryExecute(IF valid THEN UserQuery(CurrentTable)
                                      ELSE BadQuery(CurrentTable))
  \/ Starts(patient) /\ RegexSearch_handleClear
  \/ \E f \in Range(loadedFiles) : Starts(patient) /\ reopenLoadedFile(f)

\* The exports the user starts from the export panel, with either version
\* of handleExport.
ExportActions(patient) ==
  \/ \E format \in ExportFormats, visible \in ColumnChoices :
       Starts(patient) /\ handleExport(format, visible)
  \/ \E format \in ExportFormats, visible \in ColumnChoices :
       Starts(patient) /\ App_handleExport(format, visible)

\* What the user does in the join wizard.
WizardActions(patient) ==
  \/ Starts(patient) /\ openJoinWizard
  \/ cancelJoinWizard
  \/ \E side \in {"left", "right"}, c \in SUBSET Range(loadedFiles) :
       Cardinality(c) <= 1 /\ handleTableSelect(side, c)
  \/ wizardToPreview
  \/ \E to \in {"select", "configure"} : wizardSetStep(to)
  \/ wizardToResult
  \/ \E n \in JoinNames : handleSave(n)

\* The join configurator: two files in the catalog, the wizard brought to
\* its 'configure' step, then column toggles and prefix edits.
ColumnNames == { <<"i", "d">>, <<"x">>, <<"y">> }

\* The rest of the configurator's form: the join type and the conditions.
ConditionFields == {"leftColumn", "rightColumn", "operator"}

ConditionActions(fields) ==
  \/ \E joinType \in JOIN_TYPES : setJoinType(joinType)
  \/ addCondition
  \/ \E index \in 1 .. MaxConditions : removeCondition(index)
  \/ \E index \in 1 .. MaxConditions, field \in fields,
        value \in ColumnNames \cup {<<op>> : op \in OPERATORS} :
       updateCondition(index, field, value)

ConfiguratorActions ==
  \/ \E side \in {"left", "right"}, value \in Prefixes : setPrefix(side, value)
  \/ \E tbl \in {"left", "right"}, column \in ColumnNames : toggleColumn(tbl, column)

NextConfig ==
  \/ \E v \in BOOLEAN : setShowFileSelector(v)
  \/ FileActions(TRUE, SavedFiles)
  \/ Settled /\ openJoinWizard
  \/ \E side \in {"left", "right"}, c \in SUBSET Range(loadedFiles) :
       Cardinality(c) <= 1 /\ handleTableSelect(side, c)
  \/ wizardToPreview
  \/ \E t \in BagToSet(tasks) : loadPreviews_return(t)
  \/ \E to \in {"select", "configure"} : wizardSetStep(to)
  \/ ConfiguratorActions
  \/ LoadSteps({TRUE})
  \/ RestoreSteps({TRUE})

SpecConfig == Init /\ [][NextConfig]_vars

\* The whole application: a user who starts operations at any moment, and
\* storage calls that can fail.
Next ==
  \/ TabActions(FileNames \cup JoinNames)
  \/ \E m \in FilterModels : GridFilterChanged(m)
  \/ FileActions(FALSE, UserFiles)
  \/ QueryActions(FALSE)
  \/ handleClearSavedData
  \/ WizardActions(FALSE)
  \/ reloadPage
  \/ LoadSteps(BOOLEAN)
  \/ RestoreSteps(BOOLEAN)
  \/ ClearSteps(BOOLEAN)
  \/ QuerySteps
  \/ JoinSteps
  \/ ExportActions(FALSE)
  \/ ExportSteps(BOOLEAN)
  \/ ConfiguratorActions
  \/ ConditionActions(ConditionFields)

Spec == Init /\ [][Next]_vars

\* Loads, saves, restore and "clear saved data", started at any moment (also
\* while others are in flight), with storage calls that can fail.
NextLoad ==
  \/ FileActions(FALSE, UserFiles)
  \/ handleClearSavedData
  \/ LoadSteps(BOOLEAN)
  \/ RestoreSteps(BOOLEAN)
  \/ ClearSteps(BOOLEAN)

SpecLoad == Init /\ [][NextLoad]_vars

\* The awaits of restoreLastFile: each storage or engine call it waits for
\* returns or throws.
RestoreAwaits ==
  \/ \E ok \in BOOLEAN : restoreLastFile_getLastUsedFileId(ok)
  \/ \E ok \in BOOLEAN : restoreLastFile_getPersistedFile(ok)
  \/ loadFileFromContent_drop
  \/ loadFileFromContent_create
  \/ loadFileFromContent_describe
  \/ loadFileFromContent_count
  \/ restoreLastFile_preview

\* SpecLoad where every call the restore awaits eventually returns or throws.
SpecLoadFair == SpecLoad /\ WF_vars(RestoreAwaits)

\* Tabs, grid filters and queries: the user works the tab bar and the grid at
\* any moment, also while a query or a load is in flight.
NextTabs ==
  \/ TabActions(FileNames)
  \/ \E m \in FilterModels : GridFilterChanged(m)
  \/ FileActions(TRUE, UserFiles)
  \/ QueryActions(TRUE)
  \/ LoadSteps({TRUE})
  \/ RestoreSteps({TRUE})
  \/ QuerySteps

SpecTabs == Init /\ [][NextTabs]_vars

\* Three files in three tabs, opened and closed.
NextClose ==
  \/ TabActions(MoreNames)
  \/ FileActions(TRUE, MoreFiles)
  \/ LoadSteps({TRUE})
  \/ RestoreSteps({TRUE})

SpecClose == Init /\ [][NextClose]_vars

\* Exports of what the grid shows: after a load or a restore, a search, a
\* query or a change of the grid's filter, with engine calls that can fail.
NextExport ==
  \/ \E m \in FilterModels : GridFilterChanged(m)
  \/ FileActions(TRUE, UserFiles)
  \/ \E pattern \in Patterns, useRegex \in BOOLEAN :
       Settled /\ RegexSearch_handleSearch(pattern, useRegex)
  \/ Settled /\ MainViewShown /\ handleQueryExecute(UserQuery(CurrentTable))
  \/ ExportActions(TRUE)
  \/ LoadSteps({TRUE})
  \/ RestoreSteps({TRUE})
  \/ \E t \in BagToSet(tasks) : executeQuery_return(t)
  \/ ExportSteps(BOOLEAN)

SpecExport == Init /\ [][NextExport]_vars

\* Queries, searches and search-clears started at any moment, also while an
\* earlier one is still running: the Search and Clear buttons of RegexSearch
\* are never disabled and Ctrl+Enter in the editor does not look at
\* isExecuting. Loads are started only when nothing else is in flight.
NextQueries ==
  \/ FileActions(TRUE, UserFiles)
  \/ \E pattern \in Patterns, useRegex \in BOOLEAN :
       RegexSearch_handleSearch(pattern, useRegex)
  \/ \E valid \in BOOLEAN :
       /\ MainViewShown
       /\ handleQueryExecute(IF valid THEN UserQuery(CurrentTable)
                                      ELSE BadQuery(CurrentTable))
  \/ RegexSearch_handleClear
  \/ LoadSteps({TRUE})
  \/ RestoreSteps({TRUE})
  \/ \E t \in BagToSet(tasks) : executeQuery_return(t)

SpecQueries == Init /\ [][NextQueries]_vars

\* The same with loads started at any moment as well: the drop zone calls
\* onFileSelect whatever isLoading is.
NextControls ==
  \/ FileActions(FALSE, UserFiles)
  \/ \E pattern \in Patterns, useRegex \in BOOLEAN :
       RegexSearch_handleSearch(pattern, useRegex)
  \/ \E valid \in BOOLEAN :
       /\ MainViewShown
       /\ handleQueryExecute(IF valid THEN UserQuery(CurrentTable)
                                      ELSE BadQuery(CurrentTable))
  \/ RegexSearch_handleClear
  \/ LoadSteps({TRUE})
  \/ RestoreSteps({TRUE})
  \/ \E t \in BagToSet(tasks) : executeQuery_return(t)

SpecControls == Init /\ [][NextControls]_vars

\* Files of any name, loaded one after the other.
NextNames ==
  \/ FileActions(TRUE, [name : AnyNames, content : {"good"}])
  \/ LoadSteps({TRUE})
  \/ RestoreSteps({TRUE})

SpecNames == Init /\ [][NextNames]_vars

\* A join built in the wizard. The session starts where a.csv has been
\* restored from the store and b.xlsx has been loaded and saved, with nothing
\* in flight, and the user has just opened the wizard (a state SpecJoin
\* reaches).
InitBuild ==
  LET a == [name |-> <<"a", ".", "c", "s", "v">>, content |-> "good"]
      b == [name |-> <<"b", ".", "x", "l", "s", "x">>, content |-> "good"]
      lfA == LoadedFile(a.name, TableOf(a), detectFormat(a.name))
      lfB == LoadedFile(b.name, TableOf(b), detectFormat(b.name))
      recA == fileToPersistedFile(a, FileId(a, 0))
      recB == fileToPersistedFile(b, FileId(b, 1))
  IN  /\ relations = {TableOf(a), TableOf(b)}
      /\ loadedFiles = <<lfA, lfB>>
      /\ tabs = <<NewTab(lfA, QueryResult(PreviewQuery(TableOf(a)))),
                  NewTab(lfB, QueryResult(PreviewQuery(TableOf(b))))>>
      /\ activeTabId = TableOf(b)
      /\ showFileSelector = FALSE
      /\ showJoinWizard = TRUE
      /\ isFileLoading = FALSE
      /\ isQueryRunning = FALSE
      /\ isRestoring = FALSE
      /\ error = Null
      /\ restoreNotification = Null
      /\ gridFilter = EmptyFilter
      /\ searchError = Null
      /\ files = {recA, recB}
      /\ lastUsedFileId = FileId(b, 1)
      /\ restore = [pc |-> "done", id |-> FileId(a, 0), rec |-> {recA},
                    outcome |-> "restored"]
      /\ tasks = EmptyBag
      /\ wizard = [WizardInit EXCEPT !.id = 2]
      /\ nOps = 2
      /\ lastTabEvent = "none"
      /\ isExporting = FALSE
      /\ downloads = <<>>
      /\ configurator = [leftPrefix |-> <<>>, rightPrefix |-> <<>>, selectedColumns |-> <<>>,
                         joinType |-> "INNER", conditions |-> <<>>]
      /\ lastIssued = <<>>

\* The wizard is taken to its 'configure' step and the form is edited (the
\* prefix fields are left alone); the result is previewed and the table
\* created. The user leaves the left column of a condition as it is, and
\* once a result has been asked for, changes the join type only; they move
\* between the steps when nothing is in flight, and press "Create Table" at
\* any moment.
NextBuild ==
  \/ \E side \in {"left", "right"}, c \in SUBSET Range(loadedFiles) :
       Cardinality(c) <= 1 /\ handleTableSelect(side, c)
  \/ Settled /\ wizardToPreview
  \/ \E to \in {"select", "configure"} : Settled /\ wizardSetStep(to)
  \/ \E tbl \in {"left", "right"}, column \in ColumnNames :
       wizard.joinConfig = <<>> /\ toggleColumn(tbl, column)
  \/ wizard.joinConfig = <<>> /\ ConditionActions({"rightColumn", "operator"})
  \/ \E joinType \in JOIN_TYPES : wizard.joinConfig # <<>> /\ setJoinType(joinType)
  \/ Settled /\ wizardToResult
  \/ \E n \in JoinNames : handleSave(n)
  \/ JoinSteps

SpecBuild == InitBuild /\ [][NextBuild]_vars

\* The quick filter: the user types in the box and exports the table under
\* the filter as CSV.
NextQuick ==
  \/ FileActions(TRUE, SavedFiles)
  \/ \E value \in QuickTerms : setQuickFilter(value)
  \/ \E visible \in ColumnChoices : Settled /\ App_handleExport("csv", visible)
  \/ \E t \in BagToSet(tasks) : exportData_create(t)
  \/ \E t \in BagToSet(tasks) : exportData_copy(t, TRUE)
  \/ \E t \in BagToSet(tasks) : exportData_copyFileToBuffer(t)
  \/ \E t \in BagToSet(tasks) : exportData_drop(t)
  \/ LoadSteps({TRUE})
  \/ RestoreSteps({TRUE})

SpecQuick == Init /\ [][NextQuick]_vars

\* The join wizard over the files of the session.
NextJoin ==
  \/ \E v \in BOOLEAN : setShowFileSelector(v)
  \/ FileActions(TRUE, UserFiles)
  \/ WizardActions(TRUE)
  \/ LoadSteps({TRUE})
  \/ RestoreSteps({TRUE})
  \/ JoinSteps

SpecJoin == Init /\ [][NextJoin]_vars

\* =================================================================== claims

\* ---------------------------------------------------------------------- C1
\* C1: once every load, restore and join has returned or thrown, also those
\* that failed part-way, every entry of the catalog has a live relation of
\* the same name in the engine.
C1_CatalogEntriesLive ==
  Settled => \A i \in DOMAIN loadedFiles : loadedFiles[i].tableName \in relations

\* ---------------------------------------------------------------------- C2
\* C2: at no time are two engine calls in flight at once on the shared
\* connection.
C2_OneEngineCallAtATime == InFlight <= 1

\* ---------------------------------------------------------------------- C3
\* C3: a step that closes the active tab while other tabs remain leaves the
\* last tab of the remaining sequence active.
C3_CloseActivatesLast ==
  [][\A n \in MoreNames :
       LET id == sanitizeTableName(n)
       IN  (handleTabClose(id) /\ id = activeTabId /\ tabs' # <<>>)
             => /\ activeTabId' = tabs'[Len(tabs')].file.tableName
                /\ id \notin TabIds(tabs')
                /\ \A i \in DOMAIN tabs' : \E j \in DOMAIN tabs : tabs'[i] = tabs[j]]_vars

\* The active tab of three was closed, and the two that remain are different
\* tabs, the last of them active.
C3_Witness ==
  /\ lastTabEvent = "closeActive"
  /\ Len(tabs) = 2
  /\ tabs[1].file.tableName # tabs[2].file.tableName
  /\ activeTabId = tabs[2].file.tableName

ActiveIndex ==
  CHOOSE i \in DOMAIN tabs :
    /\ tabs[i].file.tableName = activeTabId
    /\ \A j \in DOMAIN tabs : tabs[j].file.tableName = activeTabId => i <= j

\* C5: a select(tableId) step, taken while a tab is active and shown in the
\* grid, stores the grid's live filter model in the active tab's filterModel,
\* makes tableId active, and changes the stored state of no other tab.
C5_SelectStoresFilter ==
  [][\A n \in FileNames :
       LET id == sanitizeTableName(n)
       IN  (handleTabSelect(id) /\ MainViewShown)
             => /\ activeTabId' = id
                /\ Len(tabs') = Len(tabs)
                /\ tabs'[ActiveIndex] = [tabs[ActiveIndex] EXCEPT !.filterModel = gridFilter]
                /\ \A i \in DOMAIN tabs : i # ActiveIndex => tabs'[i] = tabs[i]]_vars

\* The same with tabs told apart by table id: the tabs that carry the active
\* id get the live filter model, the tabs with another id do not change.
C5_SelectStoresFilterById ==
  [][\A n \in FileNames :
       LET id == sanitizeTableName(n)
       IN  (handleTabSelect(id) /\ MainViewShown)
             => /\ activeTabId' = id
                /\ Len(tabs') = Len(tabs)
                /\ \A i \in DOMAIN tabs :
                     tabs'[i] = IF tabs[i].file.tableName = activeTabId
                                  THEN [tabs[i] EXCEPT !.filterModel = gridFilter]
                                  ELSE tabs[i]]_vars

\* ---------------------------------------------------------------------- C6
\* no two tabs carry the same table id
DistinctTabs ==
  \A i, j \in DOMAIN tabs : tabs[i].file.tableName = tabs[j].file.tableName => i = j

\* C6 as stated: when a query or search returns its result (here: while no
\* two tabs share an id), the result and the query text are merged into the
\* tab that is active at that moment, and every other tab is unchanged.
C6_MergedIntoActiveAtCompletion ==
  [][\A t \in BagToSet(tasks) :
       (executeQuery_return(t) /\ QuerySucceeds(t.sql, relations)
          /\ HasActiveTab(tabs, activeTabId) /\ DistinctTabs)
         => /\ Len(tabs') = Len(tabs)
            /\ tabs'[ActiveIndex].queryResult = QueryResult(t.sql)
            /\ tabs'[ActiveIndex].lastQuery = t.sql
            /\ \A i \in DOMAIN tabs : i # ActiveIndex => tabs'[i] = tabs[i]]_vars

\* C6 as the code has it: the result and the query text are merged into the
\* tabs whose table id was the active id when the query was started (t.tab),
\* active or not by now; tabs with another id are unchanged, and nothing is
\* merged when no tab has that id any more.
C6_MergedIntoIssuingTab ==
  [][\A t \in BagToSet(tasks) :
       (executeQuery_return(t) /\ QuerySucceeds(t.sql, relations))
         => /\ Len(tabs') = Len(tabs)
            /\ \A i \in DOMAIN tabs :
                 IF tabs[i].file.tableName = t.tab
                   THEN /\ tabs'[i].queryResult = QueryResult(t.sql)
                        /\ tabs'[i].lastQuery = t.sql
                        /\ tabs'[i].file = tabs[i].file
                        /\ tabs'[i].filterModel = tabs[i].filterModel
                        /\ tabs'[i].quickFilter = tabs[i].quickFilter
                   ELSE tabs'[i] = tabs[i]]_vars

\* A tab that is not the active one holds the result of a query the user ran
\* (typed SQL or a search): the query returned after the user had moved on.
C6_Witness ==
  \E i \in DOMAIN tabs :
    /\ tabs[i].file.tableName # activeTabId
    /\ tabs[i].lastQuery.kind \in {"user", "search"}
    /\ tabs[i].queryResult = QueryResult(tabs[i].lastQuery)

\* ---------------------------------------------------------------------- C7
\* C7: after a select(B) step taken with the grid on screen, the grid's live
\* filter model is B's stored filterModel, and the empty model when that is
\* null.
C7_SelectShowsStoredFilter ==
  [][\A n \in FileNames :
       LET id == sanitizeTableName(n)
           stored == InitialFilterModel(tabs', id)
       IN  (handleTabSelect(id) /\ MainViewShown /\ id # activeTabId)
             => gridFilter' = IF stored = NullFilter THEN EmptyFilter ELSE stored]_vars

\* ---------------------------------------------------------------------- C8
\* C8: the record save stores for a file whose content ingestion accepted is
\* one that restore decodes and ingests: the encoding save applied is the one
\* restore undoes for the file's format.
C8_SavedContentRestorable ==
  [][\A t \in BagToSet(tasks) :
       saveFile_put(t, TRUE)
         => \A r \in getPersistedFile(files', FileId(t.file, t.now)) :
              ContentIngests(r.format, r.content)]_vars

\* ---------------------------------------------------------------------- C9
\* C9: the step that completes save(file) leaves a record with the returned
\* id in the file store and the last-used pointer equal to that id; a save
\* whose record write fails ends there and leaves the pointer as it was.
C9_SaveCompletes ==
  [][\A t \in BagToSet(tasks) :
       /\ saveFile_setSetting(t, TRUE)
            => /\ getPersistedFile(files', FileId(t.file, t.now)) # {}
               /\ lastUsedFileId' = FileId(t.file, t.now)
       /\ saveFile_put(t, FALSE)
            => /\ lastUsedFileId' = lastUsedFileId
               /\ t \notin BagToSet(tasks')]_vars

\* --------------------------------------------------------------------- C10
\* the restore ended because the record was missing or its content could not
\* be decoded or ingested
RestoreCouldNot == restore.outcome \in {"missing", "ingest_failed"}

\* C10: the step in which the restore finds the record missing, or its
\* content impossible to decode or ingest, sets the 'could not restore'
\* notification, ends the restore (isRestoring false, nothing thrown
\* further), and creates no tab and no catalog entry; before the user has
\* done anything the catalog and the tab sequence are then empty.
C10_CouldNotRestore ==
  /\ [][(restore.outcome = "pending" /\ RestoreCouldNot')
          => /\ restoreNotification' = CouldNotRestore
             /\ ~isRestoring'
             /\ restore'.pc = "done"
             /\ UNCHANGED <<tabs, activeTabId, loadedFiles>>]_vars
  /\ []((RestoreCouldNot /\ nOps = 0)
          => tabs = <<>> /\ activeTabId = NoId /\ loadedFiles = <<>>)

\* The restore found a record whose content it could not decode, and told
\* the user.
C10_Witness ==
  /\ restore.outcome = "ingest_failed"
  /\ restoreNotification = CouldNotRestore
  /\ loadedFiles = <<>>

\* The restore found the pointer's record missing.
C10_WitnessMissing ==
  /\ restore.outcome = "missing"
  /\ restoreNotification = CouldNotRestore

\* --------------------------------------------------------------------- C11
\* C11: if every call the restore awaits eventually returns or throws, the
\* restore eventually is over and from then on isRestoring is false (the
\* loading screen is gone and the app takes input), whatever the restore
\* found.
C11_RestoreEnds == <>[](restore.pc = "done" /\ ~isRestoring)

\* The restore ended on a preview query that failed, and the loading screen
\* is gone.
C11_Witness ==
  /\ restore.pc = "done"
  /\ restore.outcome = "preview_failed"
  /\ ~isRestoring

\* --------------------------------------------------------------------- C12
\* the step in which loadFile throws: CREATE TABLE, DESCRIBE or COUNT fails
LoadFileThrows(t) ==
  \/ /\ loadFile_create(t)
     /\ ~CreateSucceeds(t.file.content = "good", TableOf(t.file), relations)
  \/ loadFile_describe(t) /\ TableOf(t.file) \notin relations
  \/ loadFile_count(t) /\ TableOf(t.file) \notin relations

CatalogAfterUpsert(lf) ==
  LET Other(f) == f.tableName # lf.tableName
  IN  /\ loadedFiles' # <<>>
      /\ loadedFiles'[Len(loadedFiles')] = lf
      /\ SelectSeq(loadedFiles', Other) = SelectSeq(loadedFiles, Other)
      /\ Len(SelectSeq(loadedFiles', Other)) = Len(loadedFiles') - 1

\* C13: the catalog never holds two entries with one relation name, and a
\* successful load (of a dropped file or of a restored record) or join
\* leaves its own entry as the entry of its relation name.
C13_LastLoadWins ==
  /\ [](\A i, j \in DOMAIN loadedFiles :
          loadedFiles[i].tableName = loadedFiles[j].tableName => i = j)
  /\ [][\A t \in BagToSet(tasks) :
          /\ (loadFile_count(t) /\ TableOf(t.file) \in relations)
               => CatalogAfterUpsert(LoadedFile(t.file.name, TableOf(t.file),
                                                detectFormat(t.file.name)))
          /\ (createJoinedTable_count(t) /\ sanitizeTableName(t.name) \in relations)
               => CatalogAfterUpsert(LoadedFile(t.name \o JoinedSuffix,
                                                sanitizeTableName(t.name), "csv"))]_vars
  /\ [][(loadFileFromContent_count /\ RestoredTable \in relations)
          => CatalogAfterUpsert(LoadedFile(Persisted.name, RestoredTable,
                                           Persisted.format))]_vars

\* The restored file a.csv was loaded again after b.xlsx was loaded and a
\* join was saved: the catalog holds one entry per name, and the entry of
\* "a" is the last one, behind the two that were added after the restore.
C13_Witness ==
  /\ restore.outcome = "restored"
  /\ Len(loadedFiles) = 3
  /\ loadedFiles[1].tableName = <<"b">>
  /\ loadedFiles[2].name = <<"j">> \o JoinedSuffix
  /\ loadedFiles[3].tableName = <<"a">>

\* --------------------------------------------------------------------- C14
\* C14: the step that starts saveFile is the one that has added the file's
\* tab and made it active, with nothing stored yet; a storage write of
\* saveFile that fails ends the handler and leaves tabs, active tab id,
\* catalog, relations and the error as they were.
C14_SaveFailureKeepsLoad ==
  [][\A t \in BagToSet(tasks) :
       /\ (handleFileSelect_preview(t)
             /\ QuerySucceeds(PreviewQuery(TableOf(t.file)), relations))
            => /\ Len(tabs') = Len(tabs) + 1
               /\ tabs'[Len(tabs')].file.tableName = TableOf(t.file)
               /\ activeTabId' = TableOf(t.file)
               /\ [t EXCEPT !.pc = "put"] \in BagToSet(tasks')
               /\ UNCHANGED <<files, lastUsedFileId>>
       /\ (saveFile_put(t, FALSE) \/ saveFile_setSetting(t, FALSE))
            => /\ UNCHANGED <<tabs, activeTabId, loadedFiles, relations, error>>
               /\ ~isFileLoading'
               /\ CopiesIn(t, tasks') < CopiesIn(t, tasks)]_vars

\* The only thing the user did was to load a file; its tab is open and
\* active, its entry is in the catalog, no error is shown, and nothing was
\* stored: the save failed.
C14_Witness ==
  /\ nOps = 1
  /\ tasks = EmptyBag
  /\ restore.outcome = "nothing"
  /\ Len(tabs) = 1
  /\ activeTabId = tabs[1].file.tableName
  /\ Len(loadedFiles) = 1
  /\ activeTabId \in relations
  /\ error = Null
  /\ files = {}
  /\ lastUsedFileId = NoId

\* --------------------------------------------------------------------- C15
\* C15: starting a query or a search changes no tab, and the step in which
\* the query of handleQueryExecute or handleSearch throws leaves every tab
\* (the active one included) as it was, sets the error and sets
\* isQueryRunning to false.
C15_FailedQueryKeepsResult ==
  [][/\ \A valid \in BOOLEAN :
          (handleSearch(valid)
             \/ handleQueryExecute(IF valid THEN UserQuery(CurrentTable)
                                            ELSE BadQuery(CurrentTable)))
            => UNCHANGED tabs
     /\ \A t \in BagToSet(tasks) :
          (executeQuery_return(t) /\ ~QuerySucceeds(t.sql, relations)
             /\ t.handler \in {"execute", "search"})
            => /\ UNCHANGED <<tabs, activeTabId>>
               /\ error' = QueryError
               /\ ~isQueryRunning'
               /\ CopiesIn(t, tasks') < CopiesIn(t, tasks)]_vars

\* A query failed after an earlier query of the user had succeeded: the
\* error is shown, nothing is running, and the active tab still holds the
\* earlier query and its result.
C15_Witness ==
  /\ error = QueryError
  /\ ~isQueryRunning
  /\ tasks = EmptyBag
  /\ HasActiveTab(tabs, activeTabId)
  /\ ActiveTab(tabs, activeTabId).lastQuery = UserQuery(activeTabId)
  /\ ActiveTab(tabs, activeTabId).queryResult = QueryResult(UserQuery(activeTabId))

\* --------------------------------------------------------------------- C16
\* C16: a search with regex enabled and a pattern that new RegExp rejects
\* sets RegexSearch's error and issues nothing: no handler is started, no
\* engine call is in flight that was not before, and the App state is as it
\* was.
C16_InvalidRegexIssuesNoQuery ==
  [][\A pattern \in Patterns :
       (RegexSearch_handleSearch(pattern, TRUE)
          /\ trim(pattern) # "" /\ ~RegExpCompiles(pattern))
         => /\ searchError' = InvalidRegex
            /\ InFlight' = InFlight
            /\ UNCHANGED <<tasks, tabs, isQueryRunning, error, nOps>>]_vars

\* The search box shows the invalid-regex error and nothing is in flight.
C16_Witness ==
  /\ searchError = InvalidRegex
  /\ tasks = EmptyBag
  /\ ~isQueryRunning
  /\ MainViewShown

\* --------------------------------------------------------------------- C17
ExportTasks == {t \in BagToSet(tasks) : t.kind = "export"}

\* The awaits after which exportFromData or exportData has its whole blob.
BlobDonePcs == {"exportFromData_blob", "exportFromData_drop", "exportData_drop"}

\* C17: an export ends either with one call of downloadBlob, made once the
\* whole blob is produced, or - when it fails, with no row to export or an
\* engine error - with an error reported and no download; either way
\* isExporting is false again, and it is true only while an export runs.
C17_FailedExportNoDownload ==
  /\ [](isExporting => ExportTasks # {})
  /\ [][/\ \A t \in ExportTasks :
            tasks' = Finish(tasks, t) =>
              \/ /\ t.pc \in BlobDonePcs
                 /\ downloads' =
                      Append(downloads, Blob(t.data.rows, t.data.columns, t.format))
                 /\ ~isExporting'
              \/ /\ downloads' = downloads
                 /\ error' # Null
                 /\ ~isExporting'
        /\ downloads' # downloads => \E t \in ExportTasks : tasks' = Finish(tasks, t)
        /\ (error' = NoDataToExport /\ error # NoDataToExport) =>
              (downloads' = downloads /\ ~isExporting')]_vars

\* an export failed with an engine error: reported, nothing downloaded
C17_Witness ==
  /\ error = ExportError
  /\ ~isExporting
  /\ downloads = <<>>
  /\ ExportTasks = {}

\* an export found no row to export
C17_WitnessNoRows ==
  /\ error = NoDataToExport
  /\ ~isExporting
  /\ downloads = <<>>

\* --------------------------------------------------------------------- C18
\* The export took the displayed-data path: the grid's rows (tabbed App) or
\* the query built from the grid's filters and visible columns (src/App.tsx).
DisplayedDataExport(t) ==
  \/ t.pc \in {"exportFromData_blob", "exportFromData_drop"}
  \/ t.pc = "exportData_drop" /\ t.click.visible # {}

\* The step delivers the blob of export t.
Delivers(t) ==
  /\ t \in ExportTasks
  /\ tasks' = Finish(tasks, t)
  /\ downloads' # downloads

Delivered == downloads'[Len(downloads')]

\* C18: a displayed-data export started while the grid shows the initial
\* preview of the current file delivers every row of the file's table that
\* passes the grid's filters, with the visible columns - not only the rows
\* the preview query's LIMIT let into the grid.
C18_DisplayedExportUncapped ==
  [][\A t \in ExportTasks :
       (Delivers(t) /\ DisplayedDataExport(t) /\ t.click.shown.kind = "limit")
         => /\ Delivered.rows =
                 {r \in TableRows(t.click.table) : FilterMatches(t.click.filter, r)}
            /\ Delivered.columns = t.click.visible]_vars

\* the same, for the exports of src/App.tsx's handleExport only
C18_FilterExportUncapped ==
  [][\A t \in ExportTasks :
       (Delivers(t) /\ t.pc = "exportData_drop" /\ t.click.visible # {}
          /\ t.click.shown.kind = "limit")
         => /\ Delivered.rows =
                 {r \in TableRows(t.click.table) : FilterMatches(t.click.filter, r)}
            /\ Delivered.columns = t.click.visible]_vars

\* --------------------------------------------------------------------- C19
\* C19: a displayed-data export started with no filter in the grid delivers
\* the rows that the query-based export of the tab's lastQuery (exportData,
\* CREATE TEMP TABLE ... AS lastQuery) delivers, whichever query lastQuery is.
C19_ExportPathsAgree ==
  [][\A t \in ExportTasks :
       (Delivers(t) /\ DisplayedDataExport(t) /\ t.click.filter = EmptyFilter)
         => Delivered.rows = Rows(t.click.lastQuery)]_vars

\* the same, for the exports of src/App.tsx's handleExport only
C19_FilterExportAgrees ==
  [][\A t \in ExportTasks :
       (Delivers(t) /\ t.pc = "exportData_drop" /\ t.click.visible # {}
          /\ t.click.filter = EmptyFilter)
         => Delivered.rows = Rows(t.click.lastQuery)]_vars

\* the same, for the exports of the tabbed App's handleExport only
C19_GridExportAgrees ==
  [][\A t \in ExportTasks :
       (Delivers(t) /\ t.pc \in {"exportFromData_blob", "exportFromData_drop"}
          /\ t.click.filter = EmptyFilter)
         => Delivered.rows = Rows(t.click.lastQuery)]_vars

\* the tabbed App's exports agree when the grid holds the rows of lastQuery
\* itself (a search or a query of the user), not those of the preview
C19_GridExportAgreesUnlessPreview ==
  [][\A t \in ExportTasks :
       (Delivers(t) /\ t.pc \in {"exportFromData_blob", "exportFromData_drop"}
          /\ t.click.filter = EmptyFilter /\ t.click.shown = t.click.lastQuery)
         => Delivered.rows = Rows(t.click.lastQuery)]_vars

\* --------------------------------------------------------------------- C20
\* The alias policy, for one selected column under the current prefixes.
FollowsAliasPolicy(c) ==
  LET leftNames == Range(TableColumns(The(wizard.left).tableName))
      rightName == The(wizard.right).tableName
  IN  /\ (c.table = "left" /\ configurator.leftPrefix # <<>>)
           => c.alias = configurator.leftPrefix \o c.column
      /\ (c.table = "left" /\ configurator.leftPrefix = <<>>)
           => c.alias = NoAlias
      /\ (c.table = "right" /\ configurator.rightPrefix # <<>>)
           => c.alias = configurator.rightPrefix \o c.column
      /\ (c.table = "right" /\ configurator.rightPrefix = <<>>)
           => /\ (c.column \in leftNames
                   => c.alias = rightName \o <<"_">> \o c.column)
              /\ (c.column \notin leftNames => c.alias = NoAlias)

\* C20: while the join configurator is on screen, whatever columns were
\* toggled and prefixes edited, every selected column's alias is the one the
\* alias policy gives for the current prefixes.
C20_AliasesFollowPolicy ==
  ConfiguratorShown =>
    \A i \in DOMAIN configurator.selectedColumns :
      FollowsAliasPolicy(configurator.selectedColumns[i])

\* a left prefix and no right prefix, after a left column was toggled off and
\* on again: a prefixed left column, a right column aliased for its name
\* clash, and a right column with no alias
C20_Witness ==
  /\ ConfiguratorShown
  /\ configurator.leftPrefix = <<"p", "_">>
  /\ configurator.rightPrefix = <<>>
  /\ LET selected == configurator.selectedColumns
     IN  /\ Len(selected) = 4
         /\ selected[4].table = "left"
         /\ selected[4].alias = <<"p", "_">> \o selected[4].column
         /\ \E i \in DOMAIN selected :
              selected[i].table = "right" /\ selected[i].alias = NoAlias
         /\ \E i \in DOMAIN selected :
              /\ selected[i].table = "right"
              /\ selected[i].alias = The(wizard.right).tableName \o <<"_", "i", "d">>

\* --------------------------------------------------------------------- C27
\* The relation is one that exportData or exportFromData created.
IsExportTable(name) ==
  /\ Len(name) >= 8
  /\ SubSeq(name, 1, 8) = <<"_", "e", "x", "p", "o", "r", "t", "_">>

\* C27: once no export is running, whether the exports before succeeded or
\* failed, the engine holds no _export_ relation.
C27_NoExportTableLeft ==
  ExportTasks = {} => \A name \in relations : ~IsExportTable(name)

\* an export that delivers its blob has dropped its temporary relation
C27_DeliveredExportDropped ==
  [][\A t \in ExportTasks : Delivers(t) => tempTable(t.now) \notin relations']_vars

\* --------------------------------------------------------------------- C26
\* The last-used pointer is null or names a record of the file store.
PointerNamesRecord ==
  lastUsedFileId = NoId \/ getPersistedFile(files, lastUsedFileId) # {}

\* C26: in a session whose restore found the store consistent (no pointer, or
\* a pointer whose record it restored), once every load, save and clear has
\* finished - in whatever order their storage writes ran and whichever of
\* them failed - the pointer is null or names a record of the file store.
C26_PointerNamesRecord ==
  (Settled /\ restore.outcome \in {"nothing", "restored"}) => PointerNamesRecord

\* --------------------------------------------------------------------- C28
\* C28: whatever files were loaded or restored, joins completed and tabs
\* closed, no two tabs of the tab sequence have the same relation name.
C28_TabIdsUnique ==
  \A i \in DOMAIN tabs : \A j \in DOMAIN tabs :
    tabs[i].file.tableName = tabs[j].file.tableName => i = j

\* --------------------------------------------------------------------- C29
\* The step makes another tab the active one while the grid shows tab A, the
\* active tab before the step, and A stays open.
LeavesActiveTab ==
  /\ MainViewShown
  /\ activeTabId' # activeTabId
  /\ HasActiveTab(tabs', activeTabId)

\* A stored filterModel holds the live model; a stored null stands for the
\* model with no filter.
HoldsLiveFilter(stored, live) ==
  stored = live \/ (stored = NullFilter /\ live = EmptyFilter)

\* C29: whenever the active tab changes from a tab A, shown in the grid, to
\* another tab while A stays open - by a select, by the end of a file load
\* or by the end of a join - A's stored filterModel after the step is the
\* grid's live filter model at the step.
C29_SwitchStoresFilter ==
  [][LeavesActiveTab
       => HoldsLiveFilter(ActiveTab(tabs', activeTabId).filterModel, gridFilter)]_vars

\* the same for the changes that add no tab: those made by a select
C29_SelectStoresLiveFilter ==
  [][(LeavesActiveTab /\ Len(tabs') = Len(tabs))
       => HoldsLiveFilter(ActiveTab(tabs', activeTabId).filterModel, gridFilter)]_vars

\* C30: when several queries, searches or search-clears were issued for a tab
\* and all of them have completed, the tab's lastQuery and queryResult are
\* those of the one issued last (as long as that one is a query the engine
\* answers).
QueryTasks == {t \in BagToSet(tasks) : t.kind = "query"}

C30_LatestQueryWins ==
  \A i \in DOMAIN lastIssued :
    LET q == lastIssued[i]
    IN  (/\ \A t \in QueryTasks : t.tab # q.tab
         /\ HasActiveTab(tabs, q.tab)
         /\ QuerySucceeds(q.sql, relations))
        => /\ ActiveTab(tabs, q.tab).lastQuery = q.sql
           /\ ActiveTab(tabs, q.tab).queryResult = QueryResult(q.sql)

\* C22: a file load is started only when no file is loading, and a search
\* only when no query is running.
C22_NoRestartWhileInProgress ==
  [][/\ (\E f \in UserFiles : handleFileSelect(f)) => ~isFileLoading
     /\ (\E valid \in BOOLEAN : handleSearch(valid)) => ~isQueryRunning]_vars

C22_NoLoadWhileLoading ==
  [][(\E f \in UserFiles : handleFileSelect(f)) => ~isFileLoading]_vars

C22_NoSearchWhileRunning ==
  [][(\E valid \in BOOLEAN : handleSearch(valid)) => ~isQueryRunning]_vars

\* C25: the relation name sanitizeTableName gives to every file that is being
\* loaded is a valid identifier: non-empty, made of characters of
\* [A-Za-z0-9_] only, and not starting with a digit.
ValidIdentifier(name) ==
  /\ Len(name) > 0
  /\ \A i \in DOMAIN name : name[i] \in WordChars
  /\ name[1] \notin Digits

LoadTasks == {t \in BagToSet(tasks) : t.kind = "load"}

C25_TableNameValid ==
  \A t \in LoadTasks : ValidIdentifier(sanitizeTableName(t.file.name))

\* C25, for the names that have something before the extension
C25_TableNameValidUnlessEmptyBase ==
  \A t \in LoadTasks :
    StripExtension(t.file.name) # <<>> => ValidIdentifier(sanitizeTableName(t.file.name))

\* C23: every join specification that reaches the preview query or
\* createJoinedTable has at least one condition and at least one selected
\* column, and names only columns of the table of the corresponding side.
JoinQueries ==
  {t.sql : t \in {u \in BagToSet(tasks) : u.kind \in {"joinpreview", "join"}}}

WellFormedJoin(sql) ==
  /\ Len(sql.on) >= 1
  /\ Len(sql.select) >= 1
  /\ \A i \in DOMAIN sql.on :
       /\ sql.on[i].t1 \in Range(TableColumns(sql.from))
       /\ sql.on[i].t2 \in Range(TableColumns(sql.with))
  /\ \A i \in DOMAIN sql.select :
       sql.select[i].column \in
         Range(TableColumns(IF sql.select[i].alias = "t1" THEN sql.from ELSE sql.with))

C23_WitnessNoColumn == ConfiguratorShown /\ configurator.selectedColumns = <<>>

\* Two join queries have the same relations, join keyword and conditions.
SameJoin(q1, q2) ==
  /\ q1.from = q2.from /\ q1.with = q2.with
  /\ q1.join = q2.join
  /\ q1.on = q2.on

Materializes(create, preview, count) ==
  /\ SameJoin(create, preview)
  /\ SameJoin(create, count)
  /\ create.select = preview.select

JoinTasks == {t \in BagToSet(tasks) : t.kind = "join"}

\* The preview on screen can be the one of an earlier specification
\* (resultPreview is kept when a new result step starts, and "Create Table"
\* is enabled as soon as it is not null), so the CREATE TABLE need not be the
\* join behind the rows and the count that are shown.
C21_MaterializesShownPreview ==
  [][\A t \in JoinTasks' \ JoinTasks :
       Materializes(t.sql, wizard.resultPreview[1].of,
                    wizard.resultPreview[1].rowCount)]_vars

\* C21: for every join specification, the preview query, the row-count query
\* and the CREATE TABLE built from it have the same two relations, the same
\* join keyword (FULL OUTER JOIN for FULL OUTER) and the same conditions, and
\* the preview query and the CREATE TABLE have the same select list; the
\* text the configurator shows agrees with them as well.
C21_BuildersAgree ==
  /\ [](\A t \in BagToSet(tasks) : t.kind = "joinpreview" => SameJoin(t.sql, t.countSQL))
  /\ [][\A t \in JoinTasks' \ JoinTasks :
         LET joinConfig == wizard.joinConfig[1]
             selectedTables == <<The(wizard.left), The(wizard.right)>>
             preview == generatePreview_sql(selectedTables, joinConfig)
             shown == sqlPreview(joinConfig.selectedColumns, joinConfig.conditions,
                                 joinConfig.joinType, selectedTables[1], selectedTables[2])
         IN  /\ Materializes(t.sql, preview,
                             generatePreview_countSQL(selectedTables, joinConfig))
             /\ SameJoin(t.sql, shown) /\ t.sql.select = shown.select
             /\ joinConfig.joinType = "FULL OUTER" => t.sql.join = <<"FULL OUTER", "JOIN">>]_vars

\* a FULL OUTER join on two conditions, with an aliased column, is created
C21_Witness ==
  \E t \in JoinTasks :
    /\ t.sql.join = <<"FULL OUTER", "JOIN">>
    /\ Len(t.sql.on) = 2
    /\ \E i \in DOMAIN t.sql.select : t.sql.select[i].as # NoAlias

\* C24: when the text of the quick filter is not blank, the WHERE clause of
\* the export selects exactly the rows that hold the trimmed text, in either
\* case, in the text of a visible column; when it is blank there is no quick
\* filter clause.
Contains(text, term) ==
  \E i \in 0 .. Len(text) - Len(term) :
    toLowerCase(SubSeq(text, i + 1, i + Len(term))) = toLowerCase(term)

\* the exports under the grid's filters that have just been started
FilteredExports ==
  {t \in BagToSet(tasks) :
     t.kind = "export" /\ t.pc = "exportData_create" /\ t.sql.kind = "filtered"}

QuickFilterExact(t, quickFilterText) ==
  LET term == trimChars(quickFilterText)
  IN  IF term = <<>>
        THEN t.sql.quick = <<>>
        ELSE {r \in TableRows(t.sql.table) : QuickMatches(t.sql.quick, r)} =
             {r \in TableRows(t.sql.table) :
                \E column \in t.sql.columns : Contains(CellText(r, column), term)}

C24_QuickFilterExact ==
  [][\A t \in FilteredExports' \ FilteredExports :
       QuickFilterExact(t, ActiveTab(tabs, activeTabId).quickFilter)]_vars

\* C24, for the texts without the characters _ and %
C24_QuickFilterExactUnlessWildcard ==
  [][\A t \in FilteredExports' \ FilteredExports :
       LET quickFilterText == ActiveTab(tabs, activeTabId).quickFilter
       IN  Range(quickFilterText) \cap {"_", "%"} = {}
             => QuickFilterExact(t, quickFilterText)]_vars

====
